---- MODULE Spec2Model ----
(***************************************************************************)
(* Model of TRATAR_ANALISES_UNIFICADO.py: the STD ticket pipeline.         *)
(*                                                                         *)
(* Time is counted in ticks, TicksPerDay ticks to a day, tick 0 being      *)
(* midnight of a Monday.  A cell of a table is                             *)
(*   <<>>            None / NaN / NaT (pandas' absent value),              *)
(*   <<"ts", t>>     a timestamp at tick t,                                *)
(*   <<"str", s>>    a text,                                               *)
(*   <<n>>           a number,                                             *)
(* and the columns the program fills with literals hold plain strings.    *)
(* A table is a sequence of rows, a row a function from column names.     *)
(***************************************************************************)
EXTENDS Integers, Sequences, FiniteSets, TLC

VARIABLES
    clock,          \* the wall clock, in ticks
    pc,             \* the statement of main()/prepare_data() to run next
    df_original,    \* STDDataProcessor.df_original
    df_processed,   \* STDDataProcessor.df_processed
    calendario,     \* STDDataProcessor.calendario (its Date column)
    stats,          \* STDDataProcessor.stats
    reads,          \* history: the clock reads of the current prepare_data
    run,            \* history: number of the current prepare_data call
    first_run,      \* history: what the first prepare_data call left
    call,           \* the last call of a DateUtils / STDAnalyzer method: name, arguments, result
    loaded          \* history: the columns df_original had when prepare_data was called

vars == <<clock, pc, df_original, df_processed, calendario, stats, reads, run, first_run, call, loaded>>

----------------------------------------------------------------------------
(* Bounds of the model *)

TicksPerDay == 2
MaxTick == 2
MaxClock == 3
MaxRuns == 2

----------------------------------------------------------------------------
(* Config *)

COLUNAS_IMPORTANTES ==
    << "Divisão", "Gerência Operacional", "UF", "Base", "Origem", "Classificacao",
       "Solicitante", "Data_Criacao", "Data_Chegada", "Data_Previsao_Conclusao",
       "Data_Previsao_Chegada", "Data_Conclusao", "Data_de_Fechamento", "Fila",
       "Grupo", "Numero_Chamado", "Prioridade", "Substatus", "Status", "SubTipo",
       "Tipo", "Valor_Total", "Negocio", "Local_Nome", "Uniorg_Comercial",
       "Tempo_de_Custo", "Data_do_Primeiro_Encaminhamento", "Fornecedor",
       "Nota_Inicial", "originador", "regional", "Responsavel", "prazo_inicio",
       "prazo_conclusao", "rede", "modulo", "DURAÇÃO CHAMADO", "Duração Chamado" >>

DATE_COLUMNS ==
    << "Data_Criacao", "Data_Chegada", "Data_Previsao_Conclusao",
       "Data_Previsao_Chegada", "Data_Conclusao", "Data_de_Fechamento",
       "Data_do_Primeiro_Encaminhamento" >>

META_SLA == 96
META_LIMPEZA == 98

DIAS_FECHAMENTO_PENDENTE == 30

DIVISOES ==
    << [div |-> "DIV 01", GO |-> <<"GO 01">>, UFs |-> <<"AL", "CE", "PB", "PE", "RN">>],
       [div |-> "DIV 02", GO |-> <<"GO 01", "GO 02">>, UFs |-> <<"BA", "SE">>],
       [div |-> "DIV 03", GO |-> <<"GO 01">>, UFs |-> <<"CE", "MA", "PI">>],
       [div |-> "DIV 04", GO |-> <<"GO 02">>, UFs |-> <<"AP", "PA">>],
       [div |-> "DIV 05", GO |-> <<"GO 02">>, UFs |-> <<"AM", "RO", "RR", "AC">>],
       [div |-> "DIV 06", GO |-> <<"GO 02">>, UFs |-> <<"DF", "GO">>],
       [div |-> "DIV 07", GO |-> <<"GO 02">>, UFs |-> <<"MT", "MS">>],
       [div |-> "DIV 08", GO |-> <<"GO 03">>, UFs |-> <<"SP">>],
       [div |-> "DIV 09", GO |-> <<"GO 03">>, UFs |-> <<"RJ", "MG">>],
       [div |-> "DIV 10", GO |-> <<"GO 03">>, UFs |-> <<"ES", "PR", "SC", "RS">>] >>

----------------------------------------------------------------------------
(* pandas / numpy primitives *)

Range(s) == {s[i] : i \in DOMAIN s}

None == <<>>
NaT == <<>>
NaN == <<>>

Ts(t) == <<"ts", t>>
Str(s) == <<"str", s>>
Num(n) == <<n>>

isna(x) == x = <<>>
notna(x) == x # <<>>

\* Timedelta.days: the floor of the difference in days; NaN when either is NaT.
dt_days(a, b) == IF isna(a) \/ isna(b) THEN NaN ELSE Num((a[2] - b[2]) \div TicksPerDay)

SecondsPerTick == 86400 \div TicksPerDay

\* Timedelta.total_seconds
dt_total_seconds(a, b) ==
    IF isna(a) \/ isna(b) THEN NaN ELSE Num((a[2] - b[2]) * SecondsPerTick)

\* Comparisons of timestamps: any comparison with NaT is False.
ts_gt(a, b) == notna(a) /\ notna(b) /\ a[2] > b[2]
ts_lt(a, b) == notna(a) /\ notna(b) /\ a[2] < b[2]
ts_le(a, b) == notna(a) /\ notna(b) /\ a[2] <= b[2]
ts_ge(a, b) == notna(a) /\ notna(b) /\ a[2] >= b[2]

\* Comparisons of numbers: any comparison with NaN is False.
num_gt(x, n) == notna(x) /\ x[1] > n
num_lt(x, n) == notna(x) /\ x[1] < n
num_ge(x, n) == notna(x) /\ x[1] >= n
num_eq(x, n) == notna(x) /\ x[1] = n

num_add(x, n) == IF isna(x) THEN NaN ELSE Num(x[1] + n)

\* Timestamp.normalize(): midnight of the same day.
normalize(t) == (t \div TicksPerDay) * TicksPerDay

\* Timestamp.date(): the day number.
date(t) == t \div TicksPerDay

\* np.where, element-wise.
np_where(cond, x, y) == IF cond THEN x ELSE y

\* np.select, element-wise: the choice of the first condition that holds.
np_select(conditions, choices, default) ==
    IF \E i \in DOMAIN conditions : conditions[i]
    THEN choices[CHOOSE i \in DOMAIN conditions :
                    conditions[i] /\ \A j \in 1..(i - 1) : ~conditions[j]]
    ELSE default

\* pd.to_datetime(errors='coerce'): a timestamp stays, anything else is NaT.
to_datetime(x) == IF Len(x) = 2 /\ x[1] = "ts" THEN x ELSE NaT

\* datetime.weekday(): 0 is Monday.
weekday(d) == d % 7

\* np.busday_count(d1, d2): weekdays in [d1, d2), negated when d2 < d1.
busday_count(d1, d2) ==
    IF d1 <= d2
    THEN Cardinality({d \in d1..(d2 - 1) : weekday(d) < 5})
    ELSE 0 - Cardinality({d \in (d2 + 1)..d1 : weekday(d) < 5})

Max(a, b) == IF a >= b THEN a ELSE b

\* The mutant of C12: without max(0, days).
business_days_between_no_max(start_date, end_date) ==
    IF isna(start_date) \/ isna(end_date) THEN 0
    ELSE IF date(start_date[2]) = date(end_date[2]) THEN 0
    ELSE busday_count(date(start_date[2]), date(end_date[2]))

\* DateUtils.business_days_between
business_days_between(start_date, end_date) ==
    IF isna(start_date) \/ isna(end_date) THEN 0
    ELSE IF date(start_date[2]) = date(end_date[2]) THEN 0
    ELSE Max(0, busday_count(date(start_date[2]), date(end_date[2])))

----------------------------------------------------------------------------
(* STDDataProcessor._setup_mappings: the later division of the loop wins *)

uf_lookup(uf, field) ==
    LET hits == {i \in DOMAIN DIVISOES : uf \in Range(DIVISOES[i].UFs)}
    IN  IF hits = {} THEN NaN
        ELSE LET last == CHOOSE i \in hits : \A j \in hits : j <= i
             IN  IF field = "div" THEN Str(DIVISOES[last].div)
                 ELSE Str(DIVISOES[last].GO[1])

uf_para_divisao(cell) ==
    IF Len(cell) = 2 /\ cell[1] = "str" THEN uf_lookup(cell[2], "div") ELSE NaN

uf_para_go(cell) ==
    IF Len(cell) = 2 /\ cell[1] = "str" THEN uf_lookup(cell[2], "go") ELSE NaN

fillna(x, v) == IF isna(x) THEN v ELSE x

----------------------------------------------------------------------------
(* Row-wise content of the columns _create_dax_equivalent_columns adds *)

\* str.upper() of the texts the model's tables hold
upper(s) == IF s = "na" \/ s = "Na" \/ s = "nA" THEN "NA" ELSE s

\* The mutant of C14: "NA" is left as it is.
Prazo_Ajustado_unadjusted(cell) == cell

Prazo_Ajustado(cell) ==
    np_where(Len(cell) = 2 /\ cell[1] = "str" /\ upper(cell[2]) = "NA", Str("NP"), cell)

Status_Chamado(r) ==
    np_where(isna(r["Data_Conclusao"]), "Pendente", "Concluído")

\* The mutant of C21: | in place of &.
Status_Fechamento_either(r) ==
    np_where(isna(r["Data_Conclusao"]) \/ isna(r["Data_de_Fechamento"]),
             "Pendente", "Concluído")

Status_Fechamento(r) ==
    np_where(isna(r["Data_Conclusao"]) /\ isna(r["Data_de_Fechamento"]),
             "Pendente", "Concluído")

Status_Financeiro(r) ==
    np_where(isna(r["Data_de_Fechamento"]), "Pendente", "Fechado")

\* The mutant of C7: | in place of &.
Estoque_Atual_either(r) ==
    np_where(isna(r["Data_de_Fechamento"]) \/ isna(r["Data_Conclusao"]),
             "Estoque Atual", "Não")

Estoque_Atual(r) ==
    np_where(isna(r["Data_de_Fechamento"]) /\ isna(r["Data_Conclusao"]),
             "Estoque Atual", "Não")

Data_Conclusao_Ajustada(r) ==
    np_where(notna(r["Data_de_Fechamento"]) /\ isna(r["Data_Conclusao"]),
             r["Data_de_Fechamento"], r["Data_Conclusao"])

Data_Estoque(r, hoje) ==
    np_where(Estoque_Atual(r) = "Estoque Atual", Ts(hoje), NaT)

\* The mutant of C24: the days are counted from the creation, and a record
\* without a completion is flagged too.
Fechamento_Pendente_from_creation(r, hoje) ==
    np_where(/\ isna(r["Data_de_Fechamento"])
             /\ num_gt(dt_days(Ts(hoje), r["Data_Criacao"]), DIAS_FECHAMENTO_PENDENTE),
             "Sim", "Não")

Fechamento_Pendente(r, hoje) ==
    np_where(/\ isna(r["Data_de_Fechamento"])
             /\ notna(r["Data_Conclusao"])
             /\ num_gt(dt_days(Ts(hoje), r["Data_Conclusao"]), DIAS_FECHAMENTO_PENDENTE),
             "Sim", "Não")

DURACAO_CHAMADO(r, hoje) == dt_days(Ts(hoje), r["Data_Criacao"])

Dias_Atrasos(r, hoje) ==
    np_where(notna(r["Data_Previsao_Conclusao"]),
             num_add(dt_days(Ts(hoje), r["Data_Previsao_Conclusao"]), 1),
             Num(0))

\* np.where(milestone.notna(), (milestone - creation).dt.days, 0), then 0 -> 1
Dias_Ate(r, milestone) ==
    LET d == np_where(notna(r[milestone]), dt_days(r[milestone], r["Data_Criacao"]), Num(0))
    IN  np_where(num_eq(d, 0), Num(1), d)

Dias_Chegada(r) == Dias_Ate(r, "Data_Chegada")
Dias_Conclusao(r) == Dias_Ate(r, "Data_Conclusao")
Dias_Fechados(r) == Dias_Ate(r, "Data_de_Fechamento")

Tempo_Atendimento(r) ==
    np_where(notna(r["Data_Conclusao"]),
             dt_days(r["Data_Conclusao"], r["Data_Criacao"]), Num(0))

Horas_Chegada_x_Criacao(r) ==
    np_where(notna(r["Data_Chegada"]),
             dt_total_seconds(r["Data_Chegada"], r["Data_Criacao"]), Num(0))

\* The mutant of C20: the thresholds are met at 30, 60 and 90 days.
Faixa_Dias_em_Aberto_at_least(r, hoje) ==
    LET dur == DURACAO_CHAMADO(r, hoje)
        done == notna(r["Data_Conclusao"])
    IN  np_select(<< num_ge(dur, 90) /\ done, num_ge(dur, 60) /\ done, num_ge(dur, 30) /\ done >>,
                  << "+90 dias", "+60 dias", "+30 dias" >>, "-30 dias")

Faixa_Dias_em_Aberto(r, hoje) ==
    LET dur == DURACAO_CHAMADO(r, hoje)
        done == notna(r["Data_Conclusao"])
    IN  np_select(<< num_gt(dur, 90) /\ done, num_gt(dur, 60) /\ done, num_gt(dur, 30) /\ done >>,
                  << "+90 dias", "+60 dias", "+30 dias" >>, "-30 dias")

A_VENCER_WTM_30_DIAS(r, hoje) ==
    LET dur == DURACAO_CHAMADO(r, hoje)
    IN  np_where(num_lt(dur, 30) /\ num_ge(dur, 20), "À VENCER WTM +30 DIAS", "OUTROS")

\* The columns of items 1 to 18, in the order the function adds them.
dax_columns(r, hoje) ==
    [ Prazo_Inicio_Ajustado    |-> Prazo_Ajustado(r["prazo_inicio"]),
      Prazo_Conclusao_Ajustado |-> Prazo_Ajustado(r["prazo_conclusao"]),
      Status_Chamado           |-> Status_Chamado(r),
      Status_Fechamento        |-> Status_Fechamento(r),
      Status_Financeiro        |-> Status_Financeiro(r),
      Estoque_Atual            |-> Estoque_Atual(r),
      Data_Conclusao_Ajustada  |-> Data_Conclusao_Ajustada(r),
      Data_Estoque             |-> Data_Estoque(r, hoje),
      Fechamento_Pendente      |-> Fechamento_Pendente(r, hoje),
      DURACAO_CHAMADO          |-> DURACAO_CHAMADO(r, hoje),
      Dias_Atrasos             |-> Dias_Atrasos(r, hoje),
      Dias_Chegada             |-> Dias_Chegada(r),
      Dias_Conclusao           |-> Dias_Conclusao(r),
      Dias_Fechados            |-> Dias_Fechados(r),
      Tempo_Atendimento        |-> Tempo_Atendimento(r),
      Horas_Chegada_x_Criacao  |-> Horas_Chegada_x_Criacao(r),
      Faixa_Dias_em_Aberto     |-> Faixa_Dias_em_Aberto(r, hoje),
      A_VENCER_WTM_30_DIAS     |-> A_VENCER_WTM_30_DIAS(r, hoje),
      UF_Mapa                  |-> << r["UF"], "-", "Brasil" >> ]

----------------------------------------------------------------------------
(* Row-wise content of the columns _identify_late_and_open_calls adds *)

\* The mutant of C6: np.select without default=, which then is 0.
Status_Atraso_no_default(r, hoje) ==
    LET concl == r["Data_Conclusao"]
        prev  == r["Data_Previsao_Conclusao"]
    IN  np_select(
          << notna(concl) /\ notna(prev) /\ ts_gt(concl, prev),
             isna(concl) /\ notna(prev) /\ ts_lt(prev, Ts(hoje)),
             isna(concl) /\ isna(prev),
             \/ notna(concl) /\ notna(prev) /\ ts_le(concl, prev)
             \/ isna(concl) /\ notna(prev) /\ ts_ge(prev, Ts(hoje)) >>,
          << "Concluído com Atraso", "Atrasado", "Em Aberto (Sem Previsão)", "Em Dia" >>,
          "0")

\* The mutant of C1: the first three rules with "Em Dia" as the default.
Status_Atraso_default_em_dia(r, hoje) ==
    LET concl == r["Data_Conclusao"]
        prev  == r["Data_Previsao_Conclusao"]
    IN  np_select(
          << notna(concl) /\ notna(prev) /\ ts_gt(concl, prev),
             isna(concl) /\ notna(prev) /\ ts_lt(prev, Ts(hoje)),
             isna(concl) /\ isna(prev) >>,
          << "Concluído com Atraso", "Atrasado", "Em Aberto (Sem Previsão)" >>,
          "Em Dia")

Status_Atraso(r, hoje) ==
    LET concl == r["Data_Conclusao"]
        prev  == r["Data_Previsao_Conclusao"]
    IN  np_select(
          << notna(concl) /\ notna(prev) /\ ts_gt(concl, prev),
             isna(concl) /\ notna(prev) /\ ts_lt(prev, Ts(hoje)),
             isna(concl) /\ isna(prev),
             \/ notna(concl) /\ notna(prev) /\ ts_le(concl, prev)
             \/ isna(concl) /\ notna(prev) /\ ts_ge(prev, Ts(hoje)) >>,
          << "Concluído com Atraso", "Atrasado", "Em Aberto (Sem Previsão)", "Em Dia" >>,
          "Status Indefinido")

\* The mutant of C2: an overdue record counts its days from its creation.
Dias_Atraso_from_creation(r, hoje) ==
    LET concl == r["Data_Conclusao"]
        prev  == r["Data_Previsao_Conclusao"]
    IN  IF notna(concl) /\ notna(prev) /\ ts_gt(concl, prev)
        THEN dt_days(concl, prev)
        ELSE IF isna(concl) /\ (isna(prev) \/ ts_lt(prev, Ts(hoje)))
        THEN dt_days(Ts(hoje), r["Data_Criacao"])
        ELSE Num(0)

\* df["Dias_Atraso"] = 0, then the three masked assignments in turn
Dias_Atraso(r, hoje) ==
    LET concl == r["Data_Conclusao"]
        prev  == r["Data_Previsao_Conclusao"]
        d0 == Num(0)
        d1 == IF notna(concl) /\ notna(prev) /\ ts_gt(concl, prev)
              THEN dt_days(concl, prev) ELSE d0
        d2 == IF isna(concl) /\ notna(prev) /\ ts_lt(prev, Ts(hoje))
              THEN dt_days(Ts(hoje), prev) ELSE d1
    IN  IF isna(concl) /\ isna(prev)
        THEN dt_days(Ts(hoje), r["Data_Criacao"]) ELSE d2

----------------------------------------------------------------------------
(* Row-wise content of the columns _calculate_sla_status adds *)

\* The mutant of C8: the arrival is looked at before the first forwarding.
_calc_sla_inicio_arrival_first(row) ==
    IF isna(row["Data_Previsao_Chegada"]) THEN "Não Definido"
    ELSE LET data_inicio == IF isna(row["Data_Chegada"])
                            THEN row["Data_do_Primeiro_Encaminhamento"]
                            ELSE row["Data_Chegada"]
         IN  IF isna(data_inicio) THEN "Não Definido"
             ELSE IF ts_le(data_inicio, row["Data_Previsao_Chegada"]) THEN "NP" ELSE "FP"

_calc_sla_inicio(row) ==
    IF isna(row["Data_Previsao_Chegada"]) THEN "Não Definido"
    ELSE LET data_inicio == IF isna(row["Data_do_Primeiro_Encaminhamento"])
                            THEN row["Data_Chegada"]
                            ELSE row["Data_do_Primeiro_Encaminhamento"]
         IN  IF isna(data_inicio) THEN "Não Definido"
             ELSE IF ts_le(data_inicio, row["Data_Previsao_Chegada"]) THEN "NP" ELSE "FP"

\* The mutant of C9: the completion is looked at before the forecast.
_calc_sla_conclusao_pending_first(row) ==
    IF isna(row["Data_Conclusao"]) THEN "Pendente"
    ELSE IF isna(row["Data_Previsao_Conclusao"]) THEN "Não Definido"
    ELSE IF ts_le(row["Data_Conclusao"], row["Data_Previsao_Conclusao"]) THEN "NP" ELSE "FP"

\* The mutant of C23: < in place of <=.
_calc_sla_conclusao_strict(row) ==
    IF isna(row["Data_Previsao_Conclusao"]) THEN "Não Definido"
    ELSE IF isna(row["Data_Conclusao"]) THEN "Pendente"
    ELSE IF ts_lt(row["Data_Conclusao"], row["Data_Previsao_Conclusao"]) THEN "NP" ELSE "FP"

_calc_sla_conclusao(row) ==
    IF isna(row["Data_Previsao_Conclusao"]) THEN "Não Definido"
    ELSE IF isna(row["Data_Conclusao"]) THEN "Pendente"
    ELSE IF ts_le(row["Data_Conclusao"], row["Data_Previsao_Conclusao"]) THEN "NP" ELSE "FP"

Dias_Atraso_Inicio(r) ==
    np_where(_calc_sla_inicio(r) = "FP",
             dt_days(r["Data_Chegada"], r["Data_Previsao_Chegada"]), Num(0))

Dias_Atraso_Conclusao(r) ==
    np_where(_calc_sla_conclusao(r) = "FP",
             dt_days(r["Data_Conclusao"], r["Data_Previsao_Conclusao"]), Num(0))

\* now is the value pd.Timestamp.now() returned for this row
Duracao_Chamado_Dias_Uteis(r, now) ==
    Num(business_days_between(r["Data_Criacao"],
            IF notna(r["Data_Conclusao"]) THEN r["Data_Conclusao"] ELSE Ts(now)))

----------------------------------------------------------------------------
(* Tables *)

EmptyFrame == [columns |-> <<>>, rows |-> <<>>]

empty(df) == df.rows = <<>>

has_column(df, col) == col \in Range(df.columns)

\* The names of seq that are not yet columns of df, in seq's order.
new_columns(df, seq) ==
    LET fresh(c) == ~has_column(df, c) IN SelectSeq(seq, fresh)

\* df[col] = values[col] for every col of seq, values[i] holding the cells
\* of row i: a column that exists is overwritten in place, a new one is
\* appended on the right.
assign(df, seq, values) ==
    [columns |-> df.columns \o new_columns(df, seq),
     rows    |-> [i \in DOMAIN df.rows |->
                    [c \in Range(df.columns) \cup Range(seq) |->
                        IF c \in Range(seq) THEN values[i][c] ELSE df.rows[i][c]]]]

\* df[cols].copy()
select_columns(df, cols) ==
    [columns |-> cols,
     rows    |-> [i \in DOMAIN df.rows |-> [c \in Range(cols) |-> df.rows[i][c]]]]

----------------------------------------------------------------------------
(* The steps of prepare_data, as functions of the tables *)

\* _ensure_columns
ensure_columns(df) ==
    LET none(r) == [c \in Range(COLUNAS_IMPORTANTES) |-> None]
    IN  assign(df, new_columns(df, COLUNAS_IMPORTANTES), [i \in DOMAIN df.rows |-> none(df.rows[i])])

\* available_cols of prepare_data
available_cols(df) ==
    LET there(c) == has_column(df, c) IN SelectSeq(COLUNAS_IMPORTANTES, there)

\* _apply_mappings
apply_mappings(df) ==
    LET mapped(r) == [ c \in {"Divisão", "Gerência Operacional"} |->
                        IF c = "Divisão"
                        THEN fillna(uf_para_divisao(r["UF"]), Str("Divisão Não Definida"))
                        ELSE fillna(uf_para_go(r["UF"]), Str("GO Não Definida")) ]
    IN  IF has_column(df, "UF")
        THEN assign(df, << "Divisão", "Gerência Operacional" >>,
                    [i \in DOMAIN df.rows |-> mapped(df.rows[i])])
        ELSE df

\* _convert_dates
convert_dates(df) ==
    LET there(c) == has_column(df, c)
        cols == SelectSeq(DATE_COLUMNS, there)
        conv(r) == [c \in Range(cols) |-> to_datetime(r[c])]
    IN  assign(df, cols, [i \in DOMAIN df.rows |-> conv(df.rows[i])])

\* _create_calendar: the Date column, one entry a day from dt_min to dt_max
create_calendar(df, old) ==
    LET present == {df.rows[i]["Data_Criacao"][2] : i \in
                        {j \in DOMAIN df.rows : notna(df.rows[j]["Data_Criacao"])}}
    IN  IF ~has_column(df, "Data_Criacao") \/ present = {}
        THEN old
        ELSE LET dt_min == CHOOSE t \in present : \A u \in present : t <= u
                 dt_max == CHOOSE t \in present : \A u \in present : u <= t
             IN  {t \in dt_min..dt_max : (t - dt_min) % TicksPerDay = 0}

DaxColumns ==
    << "Prazo_Inicio_Ajustado", "Prazo_Conclusao_Ajustado", "Status_Chamado",
       "Status_Fechamento", "Status_Financeiro", "Estoque_Atual",
       "Data_Conclusao_Ajustada", "Data_Estoque", "Fechamento_Pendente",
       "DURACAO_CHAMADO", "Dias_Atrasos", "Dias_Chegada", "Dias_Conclusao",
       "Dias_Fechados", "Tempo_Atendimento", "Horas_Chegada_x_Criacao",
       "Faixa_Dias_em_Aberto", "A_VENCER_WTM_30_DIAS", "UF_Mapa" >>

\* dt.to_period("M"), dt.year, dt.month on a calendar of DaysPerMonth-day months
DaysPerMonth == 2

Mes_Ano(t) == IF isna(t) THEN NaT ELSE Num(date(t[2]) \div DaysPerMonth)
Ano(t) == IF isna(t) THEN NaN ELSE Num((date(t[2]) \div DaysPerMonth) \div 12)
Mes(t) == IF isna(t) THEN NaN ELSE Num(((date(t[2]) \div DaysPerMonth) % 12) + 1)

period_columns(r) ==
    [ Mes_Ano |-> Mes_Ano(r["Data_Criacao"]),
      Ano     |-> Ano(r["Data_Criacao"]),
      Mes     |-> Mes(r["Data_Criacao"]) ]

\* DateUtils.get_month_name raises on NaT: NaT has a month attribute, which is
\* nan, and calendar.month_name[nan] is a TypeError.
get_month_name_raises(period) == isna(period)

get_month_name(period) == << "month_name", (period[1] % 12) + 1 >>

\* _create_dax_equivalent_columns up to the Mes column
create_dax_equivalent_columns(df, hoje) ==
    LET with_dax == assign(df, DaxColumns,
                           [i \in DOMAIN df.rows |-> dax_columns(df.rows[i], hoje)])
    IN  assign(with_dax, << "Mes_Ano", "Ano", "Mes" >>,
               [i \in DOMAIN df.rows |-> period_columns(with_dax.rows[i])])

\* whether df["Mes_Ano"].apply(DateUtils.get_month_name) raises
nome_mes_raises(df) ==
    \E i \in DOMAIN df.rows : get_month_name_raises(Mes_Ano(df.rows[i]["Data_Criacao"]))

nome_mes(df) ==
    LET nm(r) == [c \in {"Nome_Mes"} |-> get_month_name(r["Mes_Ano"])]
    IN  assign(df, << "Nome_Mes" >>, [i \in DOMAIN df.rows |-> nm(df.rows[i])])

\* _identify_late_and_open_calls
identify_late_and_open_calls(df, hoje) ==
    LET cols(r) == [ Status_Atraso |-> Status_Atraso(r, hoje),
                     Dias_Atraso   |-> Dias_Atraso(r, hoje) ]
    IN  assign(df, << "Status_Atraso", "Dias_Atraso" >>,
               [i \in DOMAIN df.rows |-> cols(df.rows[i])])

\* _calculate_sla_status; now is what pd.Timestamp.now() returns
calculate_sla_status(df, now) ==
    LET cols(r) == [ Status_Prazo_Inicio        |-> _calc_sla_inicio(r),
                     Status_Prazo_Conclusao     |-> _calc_sla_conclusao(r),
                     Dias_Atraso_Inicio         |-> Dias_Atraso_Inicio(r),
                     Dias_Atraso_Conclusao      |-> Dias_Atraso_Conclusao(r),
                     Duracao_Chamado_Dias_Uteis |-> Duracao_Chamado_Dias_Uteis(r, now) ]
    IN  assign(df, << "Status_Prazo_Inicio", "Status_Prazo_Conclusao", "Dias_Atraso_Inicio",
                      "Dias_Atraso_Conclusao", "Duracao_Chamado_Dias_Uteis" >>,
               [i \in DOMAIN df.rows |-> cols(df.rows[i])])

----------------------------------------------------------------------------
(* Reductions over a column *)

\* (a boolean Series).sum()
count_true(flags) == Cardinality({i \in DOMAIN flags : flags[i]})

RECURSIVE sum_from(_, _, _)
sum_from(df, col, i) ==
    IF i > Len(df.rows) THEN 0
    ELSE (IF isna(df.rows[i][col]) THEN 0 ELSE df.rows[i][col][1]) + sum_from(df, col, i + 1)

\* Series.sum(): NaN is skipped
series_sum(df, col) == sum_from(df, col, 1)

\* Series.notna().sum() / Series.count()
series_count(df, col) == count_true([i \in DOMAIN df.rows |-> notna(df.rows[i][col])])

\* Series.mean() as the pair sum, count of the values that are not NaN;
\* NaN when there is none
series_mean(df, col) ==
    IF series_count(df, col) = 0 THEN NaN
    ELSE << "ratio", series_sum(df, col), series_count(df, col) >>

\* Series.nunique(): NaN is not counted
nunique(df, col) ==
    Cardinality({df.rows[i][col] : i \in DOMAIN df.rows} \ {NaN})

\* The mutant of C13: the division without the test of the denominator.
percent_unguarded(numerator, denominator) ==
    << "ratio", 100 * numerator, denominator >>

\* numerator / denominator * 100 as the pair 100 * numerator, denominator
percent(numerator, denominator) ==
    IF denominator > 0 THEN << "ratio", 100 * numerator, denominator >> ELSE Num(0)

\* f"{n:02d}": at least two characters, padded with a zero on the left
format_02d(n) == IF n >= 0 /\ n < 10 THEN "0" \o ToString(n) ELSE ToString(n)

\* The mutant of C16: the minutes are not reduced modulo the hour.
format_time_duration_total_minutes(seconds) ==
    IF isna(seconds) THEN "00:00:00"
    ELSE LET n == IF Len(seconds) = 3 THEN seconds[2] ELSE seconds[1]
             d == IF Len(seconds) = 3 THEN seconds[3] ELSE 1
             hours == n \div (3600 * d)
             minutes == n \div (60 * d)
             secs == (n % (60 * d)) \div d
         IN  format_02d(hours) \o ":" \o format_02d(minutes) \o ":" \o format_02d(secs)

\* DateUtils.format_time_duration of a number of seconds, a whole number
\* <<n>> or the quotient <<"ratio", n, d>> (d > 0): // and % floor, int()
\* drops the fraction of what is left.
format_time_duration(seconds) ==
    IF isna(seconds) THEN "00:00:00"
    ELSE LET n == IF Len(seconds) = 3 THEN seconds[2] ELSE seconds[1]
             d == IF Len(seconds) = 3 THEN seconds[3] ELSE 1
             hours == n \div (3600 * d)
             minutes == (n % (3600 * d)) \div (60 * d)
             secs == (n % (60 * d)) \div d
         IN  format_02d(hours) \o ":" \o format_02d(minutes) \o ":" \o format_02d(secs)

\* x - meta for a number or a pair
minus(x, meta) ==
    IF Len(x) = 3 THEN << "ratio", x[2] - (meta * x[3]), x[3] >> ELSE Num(x[1] - meta)

\* _compute_statistics
compute_statistics(df) ==
    LET concl(r) == notna(r["Data_Conclusao"])
        conclusao_np(r) == r["Prazo_Conclusao_Ajustado"] = Str("NP")
        inicio_np(r) == r["Prazo_Inicio_Ajustado"] = Str("NP")
        estoque(r) == r["Estoque_Atual"] = "Estoque Atual"
        pendente(r) == r["Fechamento_Pendente"] = "Sim"
        wtm(r) == r["A_VENCER_WTM_30_DIAS"] = "À VENCER WTM +30 DIAS"
        atrasado(r) == r["Status_Atraso"] \in {"Atrasado", "Concluído com Atraso"}
        em_aberto(r) == r["Status_Atraso"] = "Em Aberto (Sem Previsão)"
        total_chamados == Len(df.rows)
        total_chamados_termino == count_true([i \in DOMAIN df.rows |-> concl(df.rows[i])])
        total_conclusao_np == count_true([i \in DOMAIN df.rows |-> conclusao_np(df.rows[i])])
        total_inicio_np == count_true([i \in DOMAIN df.rows |-> inicio_np(df.rows[i])])
        sla_inicio == percent(total_inicio_np, total_chamados)
        sla_termino == percent(total_conclusao_np, total_chamados_termino)
    IN  ("Total Chamados" :> total_chamados)
        @@ ("Total Chamados Termino" :> total_chamados_termino)
        @@ ("Total Conclusão NP" :> total_conclusao_np)
        @@ ("Total Inicio NP" :> total_inicio_np)
        @@ ("SLA Início" :> sla_inicio)
        @@ ("SLA Término" :> sla_termino)
        @@ ("Comparação Meta Inicio" :> minus(sla_inicio, META_SLA))
        @@ ("Comparação Meta Término" :> minus(sla_termino, META_SLA))
        @@ ("Comparação Meta Limpeza Término" :> minus(sla_termino, META_LIMPEZA))
        @@ ("Total Estoque" :> count_true([i \in DOMAIN df.rows |-> estoque(df.rows[i])]))
        @@ ("Total Fornecedor" :> nunique(df, "Fornecedor"))
        @@ ("Total Chamados Concluídos" :> total_chamados_termino)
        @@ ("Total Chamados FP" :> total_chamados - total_conclusao_np)
        @@ ("Fechamento Pendente" :> count_true([i \in DOMAIN df.rows |-> pendente(df.rows[i])]))
        @@ ("À VENCER WTM 30 DIAS" :> count_true([i \in DOMAIN df.rows |-> wtm(df.rows[i])]))
        @@ ("Chamados Atrasados" :> count_true([i \in DOMAIN df.rows |-> atrasado(df.rows[i])]))
        @@ ("Chamados Em Aberto" :> count_true([i \in DOMAIN df.rows |-> em_aberto(df.rows[i])]))
        @@ ("Media Dias Atrasos" :> series_mean(df, "Dias_Atrasos"))
        @@ ("Média Dias Chegada" :> series_mean(df, "Dias_Chegada"))
        @@ ("Média Dias Conclusão" :> series_mean(df, "Dias_Conclusao"))
        @@ ("Média Dias Fechamento" :> series_mean(df, "Dias_Fechados"))
        @@ ("Media Tempo Atendimento" :> series_mean(df, "Tempo_Atendimento"))
        @@ ("Média Valor OS" :> series_mean(df, "Valor_Total"))
        @@ ("Qtd Agencias" :> nunique(df, "Uniorg_Comercial"))
        @@ ("Total Valor OS" :> series_sum(df, "Valor_Total"))
        @@ ("Media Tempo Chegada" :>
                format_time_duration(series_mean(df, "Horas_Chegada_x_Criacao")))
        @@ ("Tempo Chegada" :>
                format_time_duration(Num(series_sum(df, "Horas_Chegada_x_Criacao"))))

----------------------------------------------------------------------------
(* STDAnalyzer *)

\* The mutant of C26: the sum is divided by the number of rows.
mean_if_over_rows(df, col) ==
    IF has_column(df, col) /\ Len(df.rows) > 0
    THEN << "ratio", series_sum(df, col), Len(df.rows) >>
    ELSE Num(0)

\* Series.mean() if the column exists else 0
mean_if(df, col) == IF has_column(df, col) THEN series_mean(df, col) ELSE Num(0)

\* (Series == value).sum() if the column exists else 0
count_if(df, col, value) ==
    IF has_column(df, col)
    THEN count_true([i \in DOMAIN df.rows |-> df.rows[i][col] = value])
    ELSE 0

\* STDAnalyzer.calculate_general_stats: the map it returns
calculate_general_stats(df) ==
    LET total_chamados == Len(df.rows)
        total_chamados_termino ==
            IF has_column(df, "Data_Conclusao") THEN series_count(df, "Data_Conclusao") ELSE 0
        total_conclusao_np == count_if(df, "Prazo_Conclusao_Ajustado", Str("NP"))
        total_inicio_np == count_if(df, "Prazo_Inicio_Ajustado", Str("NP"))
        sla_inicio == percent(total_inicio_np, total_chamados)
        sla_termino == percent(total_conclusao_np, total_chamados_termino)
        chamados_atrasados ==
            count_if(df, "Status_Atraso", "Atrasado")
                + count_if(df, "Status_Atraso", "Concluído com Atraso")
        horas == "Horas_Chegada_x_Criacao"
    IN  ("Total Chamados" :> total_chamados)
        @@ ("Total Chamados Termino" :> total_chamados_termino)
        @@ ("Total Conclusão NP" :> total_conclusao_np)
        @@ ("Total Inicio NP" :> total_inicio_np)
        @@ ("SLA Início" :> sla_inicio)
        @@ ("SLA Término" :> sla_termino)
        @@ ("Comparação Meta Inicio" :> minus(sla_inicio, META_SLA))
        @@ ("Comparação Meta Término" :> minus(sla_termino, META_SLA))
        @@ ("Comparação Meta Limpeza Término" :> minus(sla_termino, META_LIMPEZA))
        @@ ("Total Estoque" :> count_if(df, "Estoque_Atual", "Estoque Atual"))
        @@ ("Total Fornecedor" :>
                IF has_column(df, "Fornecedor") THEN nunique(df, "Fornecedor") ELSE 0)
        @@ ("Total Chamados Concluídos" :> total_chamados_termino)
        @@ ("Total Chamados FP" :> total_chamados - total_conclusao_np)
        @@ ("Fechamento Pendente" :> count_if(df, "Fechamento_Pendente", "Sim"))
        @@ ("À VENCER WTM 30 DIAS" :>
                count_if(df, "A_VENCER_WTM_30_DIAS", "À VENCER WTM +30 DIAS"))
        @@ ("Chamados Atrasados" :> chamados_atrasados)
        @@ ("Chamados Em Aberto" :> count_if(df, "Status_Atraso", "Em Aberto (Sem Previsão)"))
        @@ ("Media Dias Atrasos" :> mean_if(df, "Dias_Atrasos"))
        @@ ("Média Dias Chegada" :> mean_if(df, "Dias_Chegada"))
        @@ ("Média Dias Conclusão" :> mean_if(df, "Dias_Conclusao"))
        @@ ("Média Dias Fechamento" :> mean_if(df, "Dias_Fechados"))
        @@ ("Media Tempo Atendimento" :> mean_if(df, "Tempo_Atendimento"))
        @@ ("Média Valor OS" :> mean_if(df, "Valor_Total"))
        @@ ("Qtd Agencias" :>
                IF has_column(df, "Uniorg_Comercial") THEN nunique(df, "Uniorg_Comercial") ELSE 0)
        @@ ("Total Valor OS" :>
                IF has_column(df, "Valor_Total") THEN series_sum(df, "Valor_Total") ELSE 0)
        @@ ("Media Tempo Chegada" :> format_time_duration(mean_if(df, horas)))
        @@ ("Tempo Chegada" :>
                format_time_duration(
                    IF has_column(df, horas) THEN Num(series_sum(df, horas)) ELSE Num(0)))

\* The rows of df whose cell in column col is key, as a table.
group_of(df, col, key) ==
    LET member(r) == r[col] = key
    IN  [columns |-> df.columns, rows |-> SelectSeq(df.rows, member)]

\* DataFrame.round(2) of a cell: a whole number and NaN stay, a quotient is
\* rounded to hundredths, half to even.
round2(x) ==
    IF Len(x) # 3 THEN x
    ELSE LET n == 100 * x[2]
             d == x[3]
             q == n \div d
             r == n % d
             up == (2 * r > d) \/ (2 * r = d /\ q % 2 = 1)
         IN  << "ratio", (IF up THEN q + 1 ELSE q), 100 >>

\* Series / Series * 100 of two whole numbers, rounded: NaN for 0 / 0 and
\* inf for a division of a positive number by 0.
rate(numerator, denominator) ==
    IF denominator = 0
    THEN (IF numerator = 0 THEN NaN ELSE << "inf" >>)
    ELSE round2(<< "ratio", 100 * numerator, denominator >>)

\* groupby(dimension).agg(...).round(2): the row of the group of key.
\* groupby leaves out the rows whose key is NaN.
agg_row(df, dimension, key) ==
    LET g == group_of(df, dimension, key)
        count == Num(series_count(g, "Numero_Chamado"))
    IN  [ index                 |-> key,
          Total_Chamados        |-> count,
          NP_Inicio             |-> Num(count_if(g, "Prazo_Inicio_Ajustado", Str("NP"))),
          NP_Conclusao          |-> Num(count_if(g, "Prazo_Conclusao_Ajustado", Str("NP"))),
          Tempo_Medio_Resolucao |->
              IF has_column(df, "Duracao_Chamado_Dias_Uteis")
              THEN round2(series_mean(g, "Duracao_Chamado_Dias_Uteis"))
              ELSE count,
          Valor_Total_OS        |->
              IF has_column(df, "Valor_Total")
              THEN Num(series_sum(g, "Valor_Total"))
              ELSE count ]

\* The sequences that hold every element of S once.
Permutations_of(S) ==
    {p \in [1..Cardinality(S) -> S] : \A i, j \in DOMAIN p : p[i] = p[j] => i = j}

\* sort_values('Total_Chamados', ascending=False) with the default
\* kind='quicksort', which is not a stable sort: every order of the rows
\* in which the counts do not increase is a possible outcome.
sort_values_descending(rows) ==
    {p \in Permutations_of(rows) :
        \A i, j \in DOMAIN p : i < j => p[i].Total_Chamados[1] >= p[j].Total_Chamados[1]}

\* DataFrame.head(n), n >= 0
head(rows, n) == SubSeq(rows, 1, IF n < Len(rows) THEN n ELSE Len(rows))

\* the two rate columns lines 802 and 803 add
with_rates(r) ==
    [ c \in DOMAIN r \cup {"% SLA Início", "% SLA Conclusão"} |->
        IF c = "% SLA Início" THEN rate(r.NP_Inicio[1], r.Total_Chamados[1])
        ELSE IF c = "% SLA Conclusão" THEN rate(r.NP_Conclusao[1], r.Total_Chamados[1])
        ELSE r[c] ]

AnalysisColumns ==
    << "Total_Chamados", "NP_Inicio", "NP_Conclusao", "Tempo_Medio_Resolucao",
       "Valor_Total_OS", "% SLA Início", "% SLA Conclusão" >>

\* The mutant of C18: the completion target column is not asked for.
analysis_possible_without_conclusao(df, dimension) ==
    /\ has_column(df, dimension)
    /\ has_column(df, "Numero_Chamado")
    /\ has_column(df, "Prazo_Inicio_Ajustado")

\* Whether analyze_by_dimension goes on to the aggregation, lines 773 to 786.
analysis_possible(df, dimension) ==
    /\ has_column(df, dimension)
    /\ has_column(df, "Numero_Chamado")
    /\ has_column(df, "Prazo_Inicio_Ajustado")
    /\ has_column(df, "Prazo_Conclusao_Ajustado")

\* STDAnalyzer.analyze_by_dimension: the tables it may return, the index
\* being the field index of a row.
analyze_by_dimension(df, dimension, top_n) ==
    IF ~analysis_possible(df, dimension) THEN {EmptyFrame}
    ELSE LET keys == {df.rows[i][dimension] : i \in DOMAIN df.rows} \ {NaN}
             groups == {agg_row(df, dimension, key) : key \in keys}
         IN  {[columns |-> AnalysisColumns,
               rows    |-> [i \in DOMAIN head(sorted, top_n) |->
                                with_rates(head(sorted, top_n)[i])]] :
                    sorted \in sort_values_descending(groups)}

MonthlyKeyColumns == << "Ano", "Mes", "Nome_Mes" >>

MonthlyColumns ==
    << "Período", "Total_Chamados", "NP_Inicio", "NP_Conclusao",
       "% SLA Início", "% SLA Conclusão" >>

\* The place of calendar.month_name[m] among the twelve names in the order
\* of strings: April, August, December, February, January, July, June,
\* March, May, November, October, September.
month_name_rank(m) == << 5, 4, 8, 1, 9, 7, 6, 2, 12, 11, 10, 3 >>[m]

\* The order groupby(['Ano', 'Mes', 'Nome_Mes']) gives its groups.
monthly_key_before(a, b) ==
    \/ a[1][1] < b[1][1]
    \/ a[1] = b[1] /\ a[2][1] < b[2][1]
    \/ a[1] = b[1] /\ a[2] = b[2]
            /\ month_name_rank(a[3][2]) < month_name_rank(b[3][2])

\* The row of analyze_monthly_evolution for the group of key.
monthly_row(df, key) ==
    LET member(r) == << r["Ano"], r["Mes"], r["Nome_Mes"] >> = key
        g == [columns |-> df.columns, rows |-> SelectSeq(df.rows, member)]
        count == series_count(g, "Numero_Chamado")
        np_inicio == count_if(g, "Prazo_Inicio_Ajustado", Str("NP"))
        np_conclusao == count_if(g, "Prazo_Conclusao_Ajustado", Str("NP"))
    IN  [c \in Range(MonthlyColumns) |->
            IF c = "Período" THEN << key[3], " ", ToString(key[1][1]) >>
            ELSE IF c = "Total_Chamados" THEN Num(count)
            ELSE IF c = "NP_Inicio" THEN Num(np_inicio)
            ELSE IF c = "NP_Conclusao" THEN Num(np_conclusao)
            ELSE IF c = "% SLA Início" THEN rate(np_inicio, count)
            ELSE rate(np_conclusao, count)]

\* Whether analyze_monthly_evolution goes on to the aggregation, line 809.
monthly_possible(df) ==
    \A c \in Range(MonthlyKeyColumns)
            \cup {"Numero_Chamado", "Prazo_Inicio_Ajustado", "Prazo_Conclusao_Ajustado"} :
        has_column(df, c)

\* STDAnalyzer.analyze_monthly_evolution: one row a month, the months in
\* the order of their keys; a row with NaN in a key belongs to no group.
analyze_monthly_evolution(df) ==
    IF ~monthly_possible(df) THEN EmptyFrame
    ELSE LET all_keys == {<< df.rows[i]["Ano"], df.rows[i]["Mes"], df.rows[i]["Nome_Mes"] >> :
                            i \in DOMAIN df.rows}
             keys == {k \in all_keys : \A j \in 1..3 : notna(k[j])}
             sorted == CHOOSE p \in Permutations_of(keys) :
                            \A i, j \in DOMAIN p : i < j => monthly_key_before(p[i], p[j])
         IN  [columns |-> MonthlyColumns,
              rows    |-> [i \in DOMAIN sorted |-> monthly_row(df, sorted[i])]]

----------------------------------------------------------------------------
(* The raw tables of the initial states *)

\* What a date cell of the spreadsheet may hold: nothing, a text that is no
\* date, or a timestamp.
RawDates == {None} \cup {Ts(t) : t \in 0..MaxTick}

\* Either empty or the latest instant: for the tables that carry every date column.
CoarseDates == {None, Ts(MaxTick)}

\* Empty, a text that is no date, or the latest instant.
TextDates == {None, Str("n/d"), Ts(MaxTick)}

ConclusaoColumns ==
    << "Data_Criacao", "Data_Previsao_Conclusao", "Data_Conclusao", "Data_de_Fechamento" >>

InicioColumns ==
    << "Data_Criacao", "Data_Chegada", "Data_Previsao_Chegada",
       "Data_do_Primeiro_Encaminhamento" >>

\* The one-row tables over the columns cols whose cells are drawn from cells.
one_row_tables(cols, cells) ==
    {[columns |-> cols, rows |-> << r >>] : r \in [Range(cols) -> cells]}

\* What a cell of prazo_inicio / prazo_conclusao may hold.
PrazoCells == {None, Str("na"), Str("NP"), Str("FP")}

PrazoColumns ==
    << "Data_Criacao", "Data_Chegada", "Data_Previsao_Chegada", "Data_Conclusao",
       "prazo_inicio", "prazo_conclusao" >>

\* One created record with the verdicts of the source system and some dates.
PrazoTables ==
    {[columns |-> PrazoColumns,
      rows |-> << [Data_Criacao |-> Ts(0), Data_Chegada |-> a, Data_Previsao_Chegada |-> f,
                   Data_Conclusao |-> c, prazo_inicio |-> pi, prazo_conclusao |-> pf] >>] :
        a \in CoarseDates, f \in CoarseDates, c \in CoarseDates,
        pi \in PrazoCells, pf \in PrazoCells}

\* A sheet with a column the program does not know, its columns in another
\* order than Config's, with and without Data_Criacao.
OtherColumns == {<< "Observacao", "Data_Conclusao" >>,
                 << "Observacao", "Data_Conclusao", "Data_Criacao" >>}

OtherTables ==
    UNION {one_row_tables(cols, CoarseDates) : cols \in OtherColumns}

\* Two created records, each with or without arrival and completion.
TwoRowTables ==
    LET rows == {[Data_Criacao |-> Ts(0), Data_Chegada |-> a, Data_Conclusao |-> c] :
                    a \in CoarseDates, c \in CoarseDates}
    IN  {[columns |-> << "Data_Criacao", "Data_Chegada", "Data_Conclusao" >>,
          rows |-> << r1, r2 >>] : r1 \in rows, r2 \in rows}

RawTables ==
    one_row_tables(ConclusaoColumns, RawDates)
        \cup one_row_tables(InicioColumns, RawDates)
        \cup one_row_tables(DATE_COLUMNS, CoarseDates)
        \cup one_row_tables(ConclusaoColumns, TextDates)
        \cup PrazoTables
        \cup OtherTables
        \cup TwoRowTables

\* The ages in days at which the program's thresholds of 30, 60 and 90 days
\* are just met and just passed.
ThresholdAges == {30, 31, 60, 61, 90, 91}

\* Clocks that many days after the latest instant of the tables.
LateClocks == {MaxTick + (d * TicksPerDay) : d \in ThresholdAges}

\* The tables of the runs that start at a late clock.
AgedTables ==
    one_row_tables(DATE_COLUMNS, CoarseDates)
        \cup one_row_tables(ConclusaoColumns, TextDates)

----------------------------------------------------------------------------
(* The state machine *)

\* No DateUtils / STDAnalyzer method has been called.
NoCall == [method |-> "", args |-> << >>, result |-> << >>]

\* After STDDataProcessor.__init__ and load_data: a non-empty df_original.
Init ==
    /\ \/ clock \in 0..MaxClock /\ df_original \in RawTables
       \/ clock \in LateClocks /\ df_original \in AgedTables
    /\ pc = "prepare_data"
    /\ df_processed = EmptyFrame
    /\ calendario = {}
    /\ stats = << >>
    /\ reads = << >>
    /\ run = 1
    /\ first_run = << >>
    /\ call = NoCall
    /\ loaded = << >>

\* The tables of the runs that call prepare_data twice.
InitAgain ==
    /\ clock \in 0..MaxClock
    /\ pc = "prepare_data"
    /\ df_original \in one_row_tables(DATE_COLUMNS, CoarseDates)
                        \cup one_row_tables(ConclusaoColumns, TextDates)
    /\ df_processed = EmptyFrame
    /\ calendario = {}
    /\ stats = << >>
    /\ reads = << >>
    /\ run = 1
    /\ first_run = << >>
    /\ call = NoCall
    /\ loaded = << >>

\* The wall clock advances.  Only the clock's value at a read matters, so the
\* model lets it advance only just before a statement that reads it.
Tick ==
    /\ pc \in {"_create_dax_equivalent_columns", "_identify_late_and_open_calls",
               "_calculate_sla_status"}
    /\ clock < MaxClock
    /\ clock' = clock + 1
    /\ UNCHANGED <<pc, df_original, df_processed, calendario, stats, reads, run, first_run, call, loaded>>

\* prepare_data, lines 181 to 187: the guard and _ensure_columns
PrepareData ==
    /\ pc = "prepare_data"
    /\ IF empty(df_original)
       THEN /\ pc' = "failed"
            /\ UNCHANGED df_original
       ELSE /\ df_original' = ensure_columns(df_original)
            /\ pc' = "available_cols"
    /\ reads' = << >>
    /\ loaded' = df_original.columns
    /\ UNCHANGED <<clock, df_processed, calendario, stats, run, first_run, call>>

\* prepare_data, lines 190 and 191
SelectColumns ==
    /\ pc = "available_cols"
    /\ df_processed' = select_columns(df_original, available_cols(df_original))
    /\ pc' = "_apply_mappings"
    /\ UNCHANGED <<clock, df_original, calendario, stats, reads, run, first_run, call, loaded>>

ApplyMappings ==
    /\ pc = "_apply_mappings"
    /\ df_processed' = apply_mappings(df_processed)
    /\ pc' = "_convert_dates"
    /\ UNCHANGED <<clock, df_original, calendario, stats, reads, run, first_run, call, loaded>>

ConvertDates ==
    /\ pc = "_convert_dates"
    /\ df_processed' = convert_dates(df_processed)
    /\ pc' = "_create_calendar"
    /\ UNCHANGED <<clock, df_original, calendario, stats, reads, run, first_run, call, loaded>>

CreateCalendar ==
    /\ pc = "_create_calendar"
    /\ calendario' = create_calendar(df_processed, calendario)
    /\ pc' = "_create_dax_equivalent_columns"
    /\ UNCHANGED <<clock, df_original, df_processed, stats, reads, run, first_run, call, loaded>>

\* The mutant of C5: "today" without normalize().
today_not_normalized(t) == t

\* pd.to_datetime("today").normalize()
today_normalize(t) == normalize(t)

\* pd.Timestamp.now()
timestamp_now(t) == t

CreateDaxEquivalentColumns ==
    /\ pc = "_create_dax_equivalent_columns"
    /\ LET hoje == today_normalize(clock)
           df == create_dax_equivalent_columns(df_processed, hoje)
       IN  /\ reads' = Append(reads, [by |-> "_create_dax_equivalent_columns",
                                      day |-> date(clock), value |-> hoje])
           /\ IF nome_mes_raises(df)
              THEN /\ df_processed' = df
                   /\ pc' = "failed"
              ELSE /\ df_processed' = nome_mes(df)
                   /\ pc' = "_identify_late_and_open_calls"
    /\ UNCHANGED <<clock, df_original, calendario, stats, run, first_run, call, loaded>>

IdentifyLateAndOpenCalls ==
    /\ pc = "_identify_late_and_open_calls"
    /\ LET hoje == today_normalize(clock)
       IN  /\ reads' = Append(reads, [by |-> "_identify_late_and_open_calls",
                                      day |-> date(clock), value |-> hoje])
           /\ df_processed' = identify_late_and_open_calls(df_processed, hoje)
    /\ pc' = "_calculate_sla_status"
    /\ UNCHANGED <<clock, df_original, calendario, stats, run, first_run, call, loaded>>

\* The rows of one apply() are taken at one value of the clock.
CalculateSlaStatus ==
    /\ pc = "_calculate_sla_status"
    /\ LET now == timestamp_now(clock)
           open == \E i \in DOMAIN df_processed.rows :
                        isna(df_processed.rows[i]["Data_Conclusao"])
       IN  /\ reads' = IF open
                       THEN Append(reads, [by |-> "_calculate_sla_status",
                                           day |-> date(clock), value |-> now])
                       ELSE reads
           /\ df_processed' = calculate_sla_status(df_processed, now)
    /\ pc' = "_compute_statistics"
    /\ UNCHANGED <<clock, df_original, calendario, stats, run, first_run, call, loaded>>

ComputeStatistics ==
    /\ pc = "_compute_statistics"
    /\ stats' = compute_statistics(df_processed)
    /\ pc' = "done"
    /\ UNCHANGED <<clock, df_original, df_processed, calendario, reads, run, first_run, call, loaded>>

\* prepare_data is called again on the same processor.
PrepareDataAgain ==
    /\ pc \in {"done", "failed"}
    /\ run < MaxRuns
    /\ run' = run + 1
    /\ first_run' = IF run = 1
                    THEN [df |-> df_processed, outcome |-> pc, clock |-> clock,
                          days |-> {reads[i].day : i \in DOMAIN reads}]
                    ELSE first_run
    /\ pc' = "prepare_data"
    /\ UNCHANGED <<clock, df_original, df_processed, calendario, stats, reads, call, loaded>>

Next ==
    \/ Tick
    \/ PrepareData
    \/ SelectColumns
    \/ ApplyMappings
    \/ ConvertDates
    \/ CreateCalendar
    \/ CreateDaxEquivalentColumns
    \/ IdentifyLateAndOpenCalls
    \/ CalculateSlaStatus
    \/ ComputeStatistics

Spec == Init /\ [][Next]_vars

NextAgain ==
    \/ Next
    \/ PrepareDataAgain

SpecAgain == InitAgain /\ [][NextAgain]_vars

----------------------------------------------------------------------------
(* Calls of the static methods of DateUtils *)

MaxDay == 8

\* The arguments of business_days_between: NaT or an instant of days 0..MaxDay.
UtilDates == {NaT} \cup {Ts(t) : t \in 0..(((MaxDay + 1) * TicksPerDay) - 1)}

HourSamples == {0, 1, 9, 10, 99, 100}
MinuteSamples == {0, 1, 30, 59}
SecondSamples == {0, 1, 59}

WholeSeconds ==
    {(h * 3600) + (m * 60) + sec :
        h \in HourSamples, m \in MinuteSamples, sec \in SecondSamples}

\* The arguments of format_time_duration: NaN, a whole number of seconds (a
\* sum), a number of seconds and a half (a mean), a negative number.
Durations ==
    {NaN, Num(0 - 1)}
        \cup {Num(n) : n \in WholeSeconds}
        \cup {<< "ratio", (2 * n) + 1, 2 >> : n \in WholeSeconds}

InitDateUtils ==
    /\ clock = 0
    /\ pc = "DateUtils"
    /\ df_original = EmptyFrame
    /\ df_processed = EmptyFrame
    /\ calendario = {}
    /\ stats = << >>
    /\ reads = << >>
    /\ run = 1
    /\ first_run = << >>
    /\ call = NoCall
    /\ loaded = << >>

BusinessDaysBetween ==
    /\ pc = "DateUtils"
    /\ \E start_date \in UtilDates, end_date \in UtilDates :
            call' = [method |-> "business_days_between",
                     args   |-> << start_date, end_date >>,
                     result |-> business_days_between(start_date, end_date)]
    /\ UNCHANGED <<clock, pc, df_original, df_processed, calendario, stats, reads, run, first_run, loaded>>

FormatTimeDuration ==
    /\ pc = "DateUtils"
    /\ \E seconds \in Durations :
            call' = [method |-> "format_time_duration",
                     args   |-> << seconds >>,
                     result |-> format_time_duration(seconds)]
    /\ UNCHANGED <<clock, pc, df_original, df_processed, calendario, stats, reads, run, first_run, loaded>>

NextDateUtils ==
    \/ BusinessDaysBetween
    \/ FormatTimeDuration

SpecDateUtils == InitDateUtils /\ [][NextDateUtils]_vars

----------------------------------------------------------------------------
(* STDAnalyzer, on the table of a processor or on a table of its own *)

AnalyzerColumns ==
    << "Tipo", "Numero_Chamado", "Prazo_Inicio_Ajustado", "Prazo_Conclusao_Ajustado",
       "Duracao_Chamado_Dias_Uteis", "Valor_Total" >>

\* A row of a table handed to STDAnalyzer.
AnalyzerRow(tipo, numero, prazo) ==
    [ Tipo |-> tipo, Numero_Chamado |-> numero, Prazo_Inicio_Ajustado |-> prazo,
      Prazo_Conclusao_Ajustado |-> Str("NP"), Duracao_Chamado_Dias_Uteis |-> Num(1),
      Valor_Total |-> Num(10) ]

AnalyzerRows ==
    {AnalyzerRow(tipo, numero, prazo) :
        tipo \in {Str("A"), Str("B"), NaN}, numero \in {Num(1), NaN},
        prazo \in {Str("NP"), Str("FP")}}

MaxRows == 2

\* Tables of 0 to MaxRows rows with all of AnalyzerColumns.
FullTables ==
    {[columns |-> AnalyzerColumns, rows |-> rows] :
        rows \in UNION {[1..n -> AnalyzerRows] : n \in 0..MaxRows}}

\* Scenario D: seven records of one value and three of another, the three
\* first or last.
ScenarioD ==
    LET a == AnalyzerRow(Str("A"), Num(1), Str("NP"))
        b == AnalyzerRow(Str("B"), Num(1), Str("FP"))
    IN  {[columns |-> AnalyzerColumns,
          rows |-> [i \in 1..10 |-> IF i <= 7 THEN a ELSE b]],
         [columns |-> AnalyzerColumns,
          rows |-> [i \in 1..10 |-> IF i <= 3 THEN b ELSE a]]}

\* Tables of two tickets that lack one of AnalyzerColumns.
LackingTables ==
    LET full == [columns |-> AnalyzerColumns,
                 rows |-> << AnalyzerRow(Str("B"), Num(1), Str("NP")),
                             AnalyzerRow(Str("A"), Num(1), Str("FP")) >>]
    IN  {select_columns(full, SelectSeq(AnalyzerColumns, LAMBDA c : c # lacking)) :
            lacking \in Range(AnalyzerColumns)}

\* Sheets of two created records with the completion verdict of the source
\* system, each completed or not.
TwoPrazoTables ==
    LET rows == {[Data_Criacao |-> Ts(0), Data_Conclusao |-> c,
                  prazo_inicio |-> Str("NP"), prazo_conclusao |-> pf] :
                    c \in CoarseDates, pf \in {Str("NP"), Str("FP")}}
    IN  {[columns |-> << "Data_Criacao", "Data_Conclusao", "prazo_inicio", "prazo_conclusao" >>,
          rows |-> << r1, r2 >>] : r1 \in rows, r2 \in rows}

\* Sheets of two tickets of one type, created in the first or the second
\* month, with or without a ticket number.
TicketTables ==
    LET rows == {[Data_Criacao |-> Ts(created), Numero_Chamado |-> numero, Tipo |-> Str("A"),
                  prazo_inicio |-> pi, prazo_conclusao |-> Str("NP")] :
                    created \in {0, TicksPerDay * DaysPerMonth},
                    numero \in {Num(1), None}, pi \in {Str("NP"), Str("FP")}}
    IN  {[columns |-> << "Data_Criacao", "Numero_Chamado", "Tipo", "prazo_inicio",
                         "prazo_conclusao" >>,
          rows |-> << r1, r2 >>] : r1 \in rows, r2 \in rows}

AnalyzerTables == {EmptyFrame} \cup FullTables \cup ScenarioD \cup LackingTables

\* The arguments of analyze_by_dimension.
Dimensions == {"Tipo", "regional"}
TopNs == {1, 2, 20}

\* Either a processor about to run prepare_data on a small table, or an
\* STDAnalyzer constructed on a table of its own.
InitAnalyzer ==
    /\ \/ /\ pc = "prepare_data"
          /\ df_original \in PrazoTables \cup TwoRowTables
                                \cup one_row_tables(ConclusaoColumns, TextDates)
                                \cup TwoPrazoTables \cup TicketTables
          /\ df_processed = EmptyFrame
       \/ /\ pc = "STDAnalyzer"
          /\ df_original = EmptyFrame
          /\ df_processed \in AnalyzerTables
    /\ clock = 0
    /\ calendario = {}
    /\ stats = << >>
    /\ reads = << >>
    /\ run = 1
    /\ first_run = << >>
    /\ call = NoCall
    /\ loaded = << >>

\* The mutant of C22: the analyzer reads the table before _calculate_sla_status.
analyzer_constructed_early == pc \in {"_calculate_sla_status", "done", "STDAnalyzer"}

\* main: STDAnalyzer(processor.df_processed) once prepare_data has returned.
analyzer_constructed == pc \in {"done", "STDAnalyzer"}

CalculateGeneralStats ==
    /\ analyzer_constructed
    /\ call' = [method |-> "calculate_general_stats",
                args   |-> << >>,
                result |-> calculate_general_stats(df_processed)]
    /\ UNCHANGED <<clock, pc, df_original, df_processed, calendario, stats, reads, run, first_run, loaded>>

AnalyzeByDimension ==
    /\ analyzer_constructed
    /\ \E dimension \in Dimensions, top_n \in TopNs :
        \E analysis \in analyze_by_dimension(df_processed, dimension, top_n) :
            call' = [method |-> "analyze_by_dimension",
                     args   |-> << dimension, top_n >>,
                     result |-> analysis]
    /\ UNCHANGED <<clock, pc, df_original, df_processed, calendario, stats, reads, run, first_run, loaded>>

AnalyzeMonthlyEvolution ==
    /\ analyzer_constructed
    /\ call' = [method |-> "analyze_monthly_evolution",
                args   |-> << >>,
                result |-> analyze_monthly_evolution(df_processed)]
    /\ UNCHANGED <<clock, pc, df_original, df_processed, calendario, stats, reads, run, first_run, loaded>>

NextAnalyzer ==
    \/ Next
    \/ CalculateGeneralStats
    \/ AnalyzeByDimension
    \/ AnalyzeMonthlyEvolution

SpecAnalyzer == InitAnalyzer /\ [][NextAnalyzer]_vars

----------------------------------------------------------------------------
(* Vocabulary of the properties *)

\* The rows of the enriched table.
Records == Range(df_processed.rows)

\* The run of prepare_data has returned.
Enriched == pc = "done"

\* The instant the statement named by read from the clock in this run.
hoje_of(by) == reads[CHOOSE i \in DOMAIN reads : reads[i].by = by].value

present(r, col) == r[col] # <<>>
absent(r, col) == r[col] = <<>>
at(r, col) == r[col][2]

\* Whole days from instant b to instant a, as a cell.
whole_days(a, b) == << (a - b) \div TicksPerDay >>

\* 2024-01-01 is day 0; a day of January 2024 as an instant at midnight.
jan(d) == (d - 1) * TicksPerDay

ScenarioRow(creation, forecast, completion) ==
    [c \in Range(DATE_COLUMNS) |->
        IF c = "Data_Criacao" THEN creation
        ELSE IF c = "Data_Previsao_Conclusao" THEN forecast
        ELSE IF c = "Data_Conclusao" THEN completion
        ELSE NaT]

----------------------------------------------------------------------------
(* C1: delay classification *)

\* C1 as claimed: Status_Atraso is the outcome of the first of (1) completed
\* after the forecast, (2) not completed and the forecast before the reference
\* instant, (3) neither completion nor forecast, and is "Em Dia" for every
\* other record, one with a completion and no forecast included.
C1_FirstMatchElseOnTime ==
    Enriched =>
        \A r \in Records :
            LET h == hoje_of("_identify_late_and_open_calls")
                rule1 == /\ present(r, "Data_Conclusao")
                         /\ present(r, "Data_Previsao_Conclusao")
                         /\ at(r, "Data_Conclusao") > at(r, "Data_Previsao_Conclusao")
                rule2 == /\ absent(r, "Data_Conclusao")
                         /\ present(r, "Data_Previsao_Conclusao")
                         /\ at(r, "Data_Previsao_Conclusao") < h
                rule3 == absent(r, "Data_Conclusao") /\ absent(r, "Data_Previsao_Conclusao")
            IN  r["Status_Atraso"] =
                    IF rule1 THEN "Concluído com Atraso"
                    ELSE IF rule2 THEN "Atrasado"
                    ELSE IF rule3 THEN "Em Aberto (Sem Previsão)"
                    ELSE "Em Dia"

\* C1 as amended: the same first three rules; of the other records those with
\* a forecast are "Em Dia" and those with a completion and no forecast are
\* "Status Indefinido".
C1_FirstMatchElseUndetermined ==
    Enriched =>
        \A r \in Records :
            LET h == hoje_of("_identify_late_and_open_calls")
            IN  r["Status_Atraso"] =
                    IF present(r, "Data_Previsao_Conclusao")
                    THEN IF present(r, "Data_Conclusao")
                         THEN IF at(r, "Data_Conclusao") > at(r, "Data_Previsao_Conclusao")
                              THEN "Concluído com Atraso" ELSE "Em Dia"
                         ELSE IF at(r, "Data_Previsao_Conclusao") < h
                              THEN "Atrasado" ELSE "Em Dia"
                    ELSE IF present(r, "Data_Conclusao")
                         THEN "Status Indefinido"
                         ELSE "Em Aberto (Sem Previsão)"

\* A completed record without a forecast has been classified.
C1_Witness ==
    /\ Enriched
    /\ \E r \in Records :
        /\ present(r, "Data_Conclusao")
        /\ absent(r, "Data_Previsao_Conclusao")
        /\ r["Status_Atraso"] = "Status Indefinido"

----------------------------------------------------------------------------
(* C2: delay-day count *)

\* C2: Dias_Atraso is completion - forecast in whole days of a record
\* completed late, reference - forecast of an overdue one, reference - creation
\* of an open one without forecast, and 0 of any other; 2024-01-10 against
\* 2024-01-15 gives 5 and 2024-01-10 against the reference 2024-01-20 gives 10.
C2_DiasAtrasoByBranch ==
    /\ Enriched =>
        \A r \in Records :
            LET h == hoje_of("_identify_late_and_open_calls")
                s == r["Status_Atraso"]
            IN  /\ s = "Concluído com Atraso" =>
                    r["Dias_Atraso"] =
                        whole_days(at(r, "Data_Conclusao"), at(r, "Data_Previsao_Conclusao"))
                /\ s = "Atrasado" =>
                    r["Dias_Atraso"] = whole_days(h, at(r, "Data_Previsao_Conclusao"))
                /\ s = "Em Aberto (Sem Previsão)" =>
                    /\ present(r, "Data_Criacao")
                    /\ r["Dias_Atraso"] = whole_days(h, at(r, "Data_Criacao"))
                /\ s \in {"Em Dia", "Status Indefinido"} => r["Dias_Atraso"] = << 0 >>
    /\ Dias_Atraso(ScenarioRow(Ts(jan(1)), Ts(jan(10)), Ts(jan(15))), jan(32)) = << 5 >>
    /\ Dias_Atraso(ScenarioRow(Ts(jan(1)), Ts(jan(10)), NaT), jan(20)) = << 10 >>

\* An overdue record whose forecast and creation lie on different sides of a
\* day boundary has been counted.
C2_Witness ==
    /\ Enriched
    /\ \E r \in Records :
        /\ r["Status_Atraso"] = "Atrasado"
        /\ present(r, "Data_Criacao")
        /\ r["Dias_Atraso"] # whole_days(hoje_of("_identify_late_and_open_calls"),
                                          at(r, "Data_Criacao"))
        /\ r["Dias_Atraso"] = << 0 >>

----------------------------------------------------------------------------
(* C3: delay-day counts are numbers >= 0 *)

is_count(x) == Len(x) = 1 /\ x[1] >= 0

\* C3 as claimed: Dias_Atraso, Dias_Atrasos, Dias_Atraso_Inicio and
\* Dias_Atraso_Conclusao of every record are defined numbers >= 0.
C3_DelayDaysNonNegative ==
    Enriched =>
        \A r \in Records :
            /\ is_count(r["Dias_Atraso"])
            /\ is_count(r["Dias_Atrasos"])
            /\ is_count(r["Dias_Atraso_Inicio"])
            /\ is_count(r["Dias_Atraso_Conclusao"])

----------------------------------------------------------------------------
(* C4: one reference instant *)

\* C4 as claimed: the fields that depend on "now" are, for every record, what
\* one and the same reference instant gives.
C4_OneReferenceInstant ==
    Enriched =>
        \E h \in {normalize(t) : t \in 0..MaxClock} :
            \A r \in Records :
                /\ r["Data_Estoque"] = Data_Estoque(r, h)
                /\ r["Fechamento_Pendente"] = Fechamento_Pendente(r, h)
                /\ r["DURACAO_CHAMADO"] = DURACAO_CHAMADO(r, h)
                /\ r["Dias_Atrasos"] = Dias_Atrasos(r, h)
                /\ r["Status_Atraso"] = Status_Atraso(r, h)
                /\ r["Dias_Atraso"] = Dias_Atraso(r, h)
                /\ r["Duracao_Chamado_Dias_Uteis"] = Duracao_Chamado_Dias_Uteis(r, h)

----------------------------------------------------------------------------
(* C5: idempotence *)

\* Every clock read of the first and of the second call fell on one day: the
\* two calls had the same reference instant.
SameReferenceInstant ==
    Cardinality(first_run.days \cup {reads[i].day : i \in DOMAIN reads}) <= 1

\* C5: a second prepare_data on the same raw table and with the same
\* reference instant ends as the first did and leaves the same enriched table.
C5_Idempotent ==
    (run = 2 /\ pc \in {"done", "failed"} /\ SameReferenceInstant) =>
        /\ pc = first_run.outcome
        /\ df_processed = first_run.df

\* A second call has returned, later on the same day, with a record in backlog.
C5_Witness ==
    /\ run = 2
    /\ Enriched
    /\ SameReferenceInstant
    /\ clock > first_run.clock
    /\ \E r \in Records : r["Estoque_Atual"] = "Estoque Atual"
    /\ df_processed = first_run.df

----------------------------------------------------------------------------
(* C6: the classification fields are never absent *)

\* C6: once a run has enriched the table, each of Status_Chamado,
\* Status_Fechamento, Status_Financeiro, Estoque_Atual and Status_Atraso of
\* every record is one value of its enumeration.
C6_StatusesInEnum ==
    Enriched =>
        \A r \in Records :
            /\ r["Status_Chamado"] \in {"Pendente", "Concluído"}
            /\ r["Status_Fechamento"] \in {"Pendente", "Concluído"}
            /\ r["Status_Financeiro"] \in {"Pendente", "Fechado"}
            /\ r["Estoque_Atual"] \in {"Estoque Atual", "Não"}
            /\ r["Status_Atraso"] \in {"Concluído com Atraso", "Atrasado",
                                       "Em Aberto (Sem Previsão)", "Em Dia",
                                       "Status Indefinido"}

\* A record closed without a completion or a forecast has been enriched.
C6_Witness ==
    /\ Enriched
    /\ \E r \in Records :
        /\ present(r, "Data_de_Fechamento")
        /\ absent(r, "Data_Conclusao")
        /\ absent(r, "Data_Previsao_Conclusao")
        /\ r["Status_Financeiro"] = "Fechado"
        /\ r["Status_Chamado"] = "Pendente"

----------------------------------------------------------------------------
(* C7: backlog membership and snapshot *)

\* C7: a record is "Estoque Atual" exactly when it has neither completion nor
\* closing; its Data_Estoque then is the reference instant and otherwise NaT.
C7_Backlog ==
    Enriched =>
        \A r \in Records :
            LET in_backlog == absent(r, "Data_Conclusao") /\ absent(r, "Data_de_Fechamento")
            IN  /\ (r["Estoque_Atual"] = "Estoque Atual") <=> in_backlog
                /\ (r["Estoque_Atual"] = "Não") <=> ~in_backlog
                /\ r["Data_Estoque"] =
                        IF in_backlog
                        THEN << "ts", hoje_of("_create_dax_equivalent_columns") >>
                        ELSE << >>

\* A record in backlog has its snapshot at the midnight before a run that
\* started after it.
C7_Witness ==
    /\ Enriched
    /\ \E r \in Records :
        /\ r["Estoque_Atual"] = "Estoque Atual"
        /\ r["Data_Estoque"] = << "ts", TicksPerDay >>
        /\ clock > TicksPerDay

----------------------------------------------------------------------------
(* C8: start-SLA verdict *)

\* C8: Status_Prazo_Inicio is "Não Definido" without a forecast arrival;
\* otherwise the first forwarding, or without one the arrival, decides:
\* "Não Definido" when both are absent, "NP" when it is no later than the
\* forecast, "FP" when it is later.
C8_StartVerdict ==
    Enriched =>
        \A r \in Records :
            r["Status_Prazo_Inicio"] =
                IF absent(r, "Data_Previsao_Chegada") THEN "Não Definido"
                ELSE IF present(r, "Data_do_Primeiro_Encaminhamento")
                THEN IF at(r, "Data_do_Primeiro_Encaminhamento") <= at(r, "Data_Previsao_Chegada")
                     THEN "NP" ELSE "FP"
                ELSE IF present(r, "Data_Chegada")
                THEN IF at(r, "Data_Chegada") <= at(r, "Data_Previsao_Chegada")
                     THEN "NP" ELSE "FP"
                ELSE "Não Definido"

\* A record forwarded in time that arrived late is within target.
C8_Witness ==
    /\ Enriched
    /\ \E r \in Records :
        /\ present(r, "Data_Previsao_Chegada")
        /\ present(r, "Data_do_Primeiro_Encaminhamento")
        /\ present(r, "Data_Chegada")
        /\ at(r, "Data_do_Primeiro_Encaminhamento") <= at(r, "Data_Previsao_Chegada")
        /\ at(r, "Data_Chegada") > at(r, "Data_Previsao_Chegada")
        /\ r["Status_Prazo_Inicio"] = "NP"

----------------------------------------------------------------------------
(* C9: completion-SLA verdict *)

\* C9: Status_Prazo_Conclusao is "Não Definido" without a forecast, also when
\* the completion is absent too; else "Pendente" without a completion; else
\* "NP" when the completion is no later than the forecast and "FP" when it is.
C9_CompletionVerdict ==
    Enriched =>
        \A r \in Records :
            r["Status_Prazo_Conclusao"] =
                IF absent(r, "Data_Previsao_Conclusao") THEN "Não Definido"
                ELSE IF absent(r, "Data_Conclusao") THEN "Pendente"
                ELSE IF at(r, "Data_Conclusao") <= at(r, "Data_Previsao_Conclusao")
                THEN "NP" ELSE "FP"

\* A record with neither forecast nor completion has its verdict and its
\* classification of scenario C.
C9_Witness ==
    /\ Enriched
    /\ \E r \in Records :
        /\ absent(r, "Data_Previsao_Conclusao")
        /\ absent(r, "Data_Conclusao")
        /\ r["Status_Prazo_Conclusao"] = "Não Definido"
        /\ r["Status_Atraso"] = "Em Aberto (Sem Previsão)"

----------------------------------------------------------------------------
(* C10: start and completion delay-day counts *)

\* C10 as claimed: Dias_Atraso_Inicio and Dias_Atraso_Conclusao are 0 unless
\* the verdict is "FP", and then the whole days from the forecast to the
\* instant that decided the verdict: for the start the first forwarding, or
\* without one the arrival.
C10_DelayDaysOfDecidingInstant ==
    Enriched =>
        \A r \in Records :
            /\ r["Dias_Atraso_Inicio"] =
                IF r["Status_Prazo_Inicio"] # "FP" THEN << 0 >>
                ELSE IF present(r, "Data_do_Primeiro_Encaminhamento")
                THEN whole_days(at(r, "Data_do_Primeiro_Encaminhamento"),
                                at(r, "Data_Previsao_Chegada"))
                ELSE whole_days(at(r, "Data_Chegada"), at(r, "Data_Previsao_Chegada"))
            /\ r["Dias_Atraso_Conclusao"] =
                IF r["Status_Prazo_Conclusao"] # "FP" THEN << 0 >>
                ELSE whole_days(at(r, "Data_Conclusao"), at(r, "Data_Previsao_Conclusao"))

----------------------------------------------------------------------------
(* C11: elapsed days to arrival, completion and closing *)

\* The elapsed count of C11 for a milestone: the whole days from creation to
\* the milestone with 0 reported as 1, and 0 without the milestone.
ElapsedCount(r, milestone) ==
    IF absent(r, milestone) THEN << 0 >>
    ELSE IF whole_days(at(r, milestone), at(r, "Data_Criacao")) = << 0 >> THEN << 1 >>
    ELSE whole_days(at(r, milestone), at(r, "Data_Criacao"))

\* C11 as claimed: Dias_Chegada, Dias_Conclusao and Dias_Fechados are each the
\* whole days from creation to the milestone when it is present, 0 reported
\* as 1, and 0 when the milestone is absent.
C11_ElapsedCounts ==
    Enriched =>
        \A r \in Records :
            /\ r["Dias_Chegada"] = ElapsedCount(r, "Data_Chegada")
            /\ r["Dias_Conclusao"] = ElapsedCount(r, "Data_Conclusao")
            /\ r["Dias_Fechados"] = ElapsedCount(r, "Data_de_Fechamento")

----------------------------------------------------------------------------
(* C12: business_days_between *)

\* The Monday-to-Friday days from day d1 up to, not including, day d2.
WeekdaysFrom(d1, d2) == Cardinality({d \in d1..(d2 - 1) : d % 7 \in 0..4})

\* C12: business_days_between(start, end) counts the Monday-Friday days from
\* start to end; it is 0 when both fall on the same date, never negative
\* (end before start or an absent argument included), and for a fixed start
\* it does not decrease as the end date increases.
C12_BusinessDays ==
    call.method = "business_days_between" =>
        LET start_date == call.args[1]
            end_date == call.args[2]
        IN  /\ call.result >= 0
            /\ (start_date = NaT \/ end_date = NaT) => call.result = 0
            /\ (start_date # NaT /\ end_date # NaT) =>
                /\ (start_date[2] \div TicksPerDay = end_date[2] \div TicksPerDay)
                        => call.result = 0
                /\ call.result = WeekdaysFrom(start_date[2] \div TicksPerDay,
                                              end_date[2] \div TicksPerDay)
                /\ \A later \in UtilDates \ {NaT} :
                        later[2] >= end_date[2]
                            => business_days_between(start_date, later) >= call.result

\* From a Friday to the Monday after it: one business day; and from that
\* Monday back to the Friday: none.
C12_Witness ==
    /\ call.method = "business_days_between"
    /\ call.args = << Ts(4 * TicksPerDay), Ts(7 * TicksPerDay) >>
    /\ call.result = 1
    /\ business_days_between(Ts(7 * TicksPerDay), Ts(4 * TicksPerDay)) = 0

----------------------------------------------------------------------------
(* C16: format_time_duration *)

\* Two digits at least, a zero in front of a single one.
Pad2(n) == IF n < 10 THEN "0" \o ToString(n) ELSE ToString(n)

\* C16: for s >= 0 seconds format_time_duration(s) is "HH:MM:SS" with
\* HH = s div 3600, MM = (s mod 3600) div 60 in 0..59 and SS = s mod 60 in
\* 0..59, so that HH*3600 + MM*60 + SS is the whole seconds of s; 5400 gives
\* "01:30:00" and an absent value "00:00:00".
C16_FormatTimeDuration ==
    call.method = "format_time_duration" =>
        LET seconds == call.args[1]
            whole == IF Len(seconds) = 3 THEN seconds[2] \div seconds[3] ELSE seconds[1]
            HH == whole \div 3600
            MM == (whole % 3600) \div 60
            SS == whole % 60
        IN  /\ seconds = NaN => call.result = "00:00:00"
            /\ seconds = << 5400 >> => call.result = "01:30:00"
            /\ (seconds # NaN /\ whole >= 0) =>
                /\ call.result = Pad2(HH) \o ":" \o Pad2(MM) \o ":" \o Pad2(SS)
                /\ MM \in 0..59
                /\ SS \in 0..59
                /\ (HH * 3600) + (MM * 60) + SS = whole

C16_Witness ==
    /\ call.method = "format_time_duration"
    /\ call.args = << << 5400 >> >>
    /\ call.result = "01:30:00"

----------------------------------------------------------------------------
(* C13: ratio KPIs with a denominator of 0 *)

\* A ratio KPI is 0 or a quotient with a positive denominator.
defined_ratio(x) == x = << 0 >> \/ (Len(x) = 3 /\ x[1] = "ratio" /\ x[3] > 0)

\* What C13 says of a KPI map.
ratios_defined(kpis) ==
    /\ defined_ratio(kpis["SLA Início"])
    /\ defined_ratio(kpis["SLA Término"])
    /\ kpis["Total Chamados"] = 0 => kpis["SLA Início"] = << 0 >>
    /\ kpis["Total Chamados Termino"] = 0 => kpis["SLA Término"] = << 0 >>
    /\ kpis["Total Chamados"] > 0 =>
            kpis["SLA Início"] = << "ratio", 100 * kpis["Total Inicio NP"],
                                    kpis["Total Chamados"] >>
    /\ kpis["Total Chamados Termino"] > 0 =>
            kpis["SLA Término"] = << "ratio", 100 * kpis["Total Conclusão NP"],
                                     kpis["Total Chamados Termino"] >>

\* C13: SLA Início and SLA Término are 0 when their denominator, the number
\* of records or of completed records, is 0, and a defined number always, in
\* the map of _compute_statistics and in that of calculate_general_stats.
C13_RatioOfZeroDenominator ==
    /\ Enriched => ratios_defined(stats)
    /\ call.method = "calculate_general_stats" => ratios_defined(call.result)

\* calculate_general_stats on an empty table, and on a table without a
\* completed record.
C13_Witness ==
    /\ call.method = "calculate_general_stats"
    /\ call.result["Total Chamados Termino"] = 0
    /\ call.result["SLA Término"] = << 0 >>
    /\ \/ df_processed = EmptyFrame /\ call.result["SLA Início"] = << 0 >>
       \/ Enriched /\ stats["SLA Término"] = << 0 >> /\ stats["Total Inicio NP"] > 0

----------------------------------------------------------------------------
(* C14: the within-target counts of the KPI map *)

\* The number of records whose column col is value.
RecordsWith(col, value) ==
    Cardinality({i \in DOMAIN df_processed.rows : df_processed.rows[i][col] = value})

\* C14 as claimed: Total Inicio NP is the number of records whose start-SLA
\* verdict (Status_Prazo_Inicio) is "NP", and Total Conclusão NP the number
\* of records whose completion-SLA verdict (Status_Prazo_Conclusao) is "NP".
C14_WithinTargetCounts ==
    Enriched =>
        /\ stats["Total Inicio NP"] = RecordsWith("Status_Prazo_Inicio", "NP")
        /\ stats["Total Conclusão NP"] = RecordsWith("Status_Prazo_Conclusao", "NP")

\* The verdict of the source system counts as within target: "NP", or "NA"
\* in any case of letters.
SourceWithinTarget(r, col) ==
    r[col] \in {Str("NP"), Str("NA"), Str("na"), Str("Na"), Str("nA")}

\* C14 as the code has it: Total Inicio NP and Total Conclusão NP count the
\* records whose verdict of the source system, prazo_inicio and
\* prazo_conclusao with "NA" taken as "NP" (Prazo_Inicio_Ajustado,
\* Prazo_Conclusao_Ajustado), is "NP"; the verdicts derived from the dates
\* are not what is counted.
C14_SourceTargetCounts ==
    Enriched =>
        /\ stats["Total Inicio NP"] = RecordsWith("Prazo_Inicio_Ajustado", Str("NP"))
        /\ stats["Total Conclusão NP"] = RecordsWith("Prazo_Conclusao_Ajustado", Str("NP"))
        /\ stats["Total Inicio NP"] =
                Cardinality({i \in DOMAIN df_processed.rows :
                                SourceWithinTarget(df_processed.rows[i], "prazo_inicio")})
        /\ stats["Total Conclusão NP"] =
                Cardinality({i \in DOMAIN df_processed.rows :
                                SourceWithinTarget(df_processed.rows[i], "prazo_conclusao")})

\* A record the source system reports as "NA" for the start, which the dates
\* put past the forecast arrival: counted within target.
C14_Witness ==
    /\ Enriched
    /\ stats["Total Inicio NP"] = 1
    /\ \E r \in Records :
        /\ r["prazo_inicio"] = Str("na")
        /\ r["Status_Prazo_Inicio"] # "NP"

----------------------------------------------------------------------------
(* C15: the five mean durations *)

\* The rows of the enriched table that have the column milestone.
Contributing(milestone) ==
    {i \in DOMAIN df_processed.rows : present(df_processed.rows[i], milestone)}

\* The mean of column col over the rows of the set rows, as the KPI map holds
\* a mean: NaN over no row, else the pair of the sum and the number of rows.
MeanOver(rows, col) ==
    LET only == [columns |-> df_processed.columns,
                 rows |-> SelectSeq(df_processed.rows,
                                    LAMBDA r : \E i \in rows : df_processed.rows[i] = r)]
    IN  IF rows = {} THEN NaN
        ELSE << "ratio", series_sum(only, col), Cardinality(rows) >>

\* Two means are the same number, or both NaN.
SameMean(x, y) ==
    IF x = NaN \/ y = NaN THEN x = y
    ELSE x[2] * y[3] = y[2] * x[3]

\* C15 as claimed: each of the five mean durations is the mean over the
\* records that have the milestone of the duration; a record without it adds
\* nothing to the sum and nothing to the number of rows.
C15_MeansOverContributingRows ==
    Enriched =>
        /\ SameMean(stats["Media Dias Atrasos"],
                    MeanOver(Contributing("Data_Previsao_Conclusao"), "Dias_Atrasos"))
        /\ SameMean(stats["Média Dias Chegada"],
                    MeanOver(Contributing("Data_Chegada"), "Dias_Chegada"))
        /\ SameMean(stats["Média Dias Conclusão"],
                    MeanOver(Contributing("Data_Conclusao"), "Dias_Conclusao"))
        /\ SameMean(stats["Média Dias Fechamento"],
                    MeanOver(Contributing("Data_de_Fechamento"), "Dias_Fechados"))
        /\ SameMean(stats["Media Tempo Atendimento"],
                    MeanOver(Contributing("Data_Conclusao"), "Tempo_Atendimento"))

----------------------------------------------------------------------------
(* C19: normalization of the raw table *)

\* The run of prepare_data began on a table that lacked a required column,
\* and whose creation dates, if it had the column, were all dates.
LackedRequiredColumn ==
    /\ \E c \in Range(COLUNAS_IMPORTANTES) : c \notin Range(loaded)
    /\ "Data_Criacao" \in Range(loaded) =>
            \A i \in DOMAIN df_original.rows :
                to_datetime(df_original.rows[i]["Data_Criacao"]) # NaT

\* C19 as claimed: whatever required columns a non-empty raw table lacks and
\* whatever other columns it has, _ensure_columns adds each missing column
\* with every cell absent, the table prepare_data goes on with has exactly
\* Config.COLUNAS_IMPORTANTES in that order, and a run that started with a
\* missing column never aborts.
C19_Normalization ==
    /\ [][PrepareData =>
            \A c \in Range(COLUNAS_IMPORTANTES) : \A i \in DOMAIN df_original.rows :
                IF has_column(df_original, c)
                THEN df_original'.rows[i][c] = df_original.rows[i][c]
                ELSE df_original'.rows[i][c] = None]_vars
    /\ [][SelectColumns =>
            /\ df_processed'.columns = COLUNAS_IMPORTANTES
            /\ \A i \in DOMAIN df_original.rows :
                    /\ DOMAIN df_processed'.rows[i] = Range(COLUNAS_IMPORTANTES)
                    /\ \A c \in Range(COLUNAS_IMPORTANTES) :
                            df_processed'.rows[i][c] = df_original.rows[i][c]]_vars
    /\ []((pc = "failed" /\ loaded # << >>) => ~LackedRequiredColumn)

----------------------------------------------------------------------------
(* C20: the age bucket *)

\* The age of a record in whole days at the reference instant of
\* _create_dax_equivalent_columns.
Age(r) == whole_days(hoje_of("_create_dax_equivalent_columns"), at(r, "Data_Criacao"))[1]

AgeBucket(age) ==
    IF age > 90 THEN "+90 dias"
    ELSE IF age > 60 THEN "+60 dias"
    ELSE IF age > 30 THEN "+30 dias"
    ELSE "-30 dias"

\* C20 as claimed: Faixa_Dias_em_Aberto of a record with completion present
\* is "+90 dias" if its age is over 90 days, else "+60 dias" if over 60, else
\* "+30 dias" if over 30, else "-30 dias"; a record with completion absent
\* has no age bucket.
C20_AgeBucketOnlyIfCompleted ==
    Enriched =>
        \A r \in Records :
            IF present(r, "Data_Conclusao")
            THEN r["Faixa_Dias_em_Aberto"] = AgeBucket(Age(r))
            ELSE r["Faixa_Dias_em_Aberto"] \notin {"+90 dias", "+60 dias", "+30 dias", "-30 dias"}

\* C20 as the code has it: a record with completion absent is given
\* "-30 dias", whatever its age.
C20_AgeBucket ==
    Enriched =>
        \A r \in Records :
            r["Faixa_Dias_em_Aberto"] =
                IF present(r, "Data_Conclusao") THEN AgeBucket(Age(r)) ELSE "-30 dias"

\* A record not completed after more than 90 days, in the bucket "-30 dias".
C20_Witness ==
    /\ Enriched
    /\ \E r \in Records :
        /\ absent(r, "Data_Conclusao")
        /\ Age(r) > 90
        /\ r["Faixa_Dias_em_Aberto"] = "-30 dias"

----------------------------------------------------------------------------
(* C17: the order and the length of a breakdown *)

\* The values of a column of the analyzer's table, NaN aside.
ValuesOf(dimension) ==
    {df_processed.rows[i][dimension] : i \in DOMAIN df_processed.rows} \ {NaN}

\* The number of rows with the value, and the first of them.
RowCount(dimension, value) ==
    Cardinality({i \in DOMAIN df_processed.rows : df_processed.rows[i][dimension] = value})

FirstRow(dimension, value) ==
    CHOOSE i \in DOMAIN df_processed.rows :
        /\ df_processed.rows[i][dimension] = value
        /\ \A j \in 1..(i - 1) : df_processed.rows[j][dimension] # value

\* value v comes before value w: more rows, or as many and met first.
Before(dimension, v, w) ==
    \/ RowCount(dimension, v) > RowCount(dimension, w)
    \/ /\ RowCount(dimension, v) = RowCount(dimension, w)
       /\ FirstRow(dimension, v) < FirstRow(dimension, w)

\* The call analysed a table it could analyse.
Analysed ==
    /\ call.method = "analyze_by_dimension"
    /\ analysis_possible(df_processed, call.args[1])

\* C17 as claimed: the breakdown has one row for each value of the dimension,
\* the values with more rows first and, among values with as many rows, the
\* one met first in the table first, cut to the first top_n rows; its row
\* count is the number of rows of the value.  Seven rows of one value and
\* three of another with top_n = 1 give the one row of the value of seven.
C17_SortedByCountStable ==
    Analysed =>
        LET dimension == call.args[1]
            top_n == call.args[2]
            rows == call.result.rows
            n == Cardinality(ValuesOf(dimension))
        IN  /\ Len(rows) = (IF top_n < n THEN top_n ELSE n)
            /\ \A i \in DOMAIN rows :
                /\ rows[i].index \in ValuesOf(dimension)
                /\ rows[i].Total_Chamados = << RowCount(dimension, rows[i].index) >>
                /\ Cardinality({v \in ValuesOf(dimension) :
                                    Before(dimension, v, rows[i].index)}) = i - 1
            /\ (df_processed \in ScenarioD /\ dimension = "Tipo" /\ top_n = 1) =>
                    /\ Len(rows) = 1
                    /\ rows[1].index = Str("A")
                    /\ rows[1].Total_Chamados = << 7 >>

----------------------------------------------------------------------------
(* C18: a breakdown of a table that lacks columns *)

\* The columns analyze_by_dimension cannot do without, the dimension aside.
RequiredForAnalysis == {"Numero_Chamado", "Prazo_Inicio_Ajustado", "Prazo_Conclusao_Ajustado"}

\* The columns it aggregates if they are there.
OptionalForAnalysis == {"Duracao_Chamado_Dias_Uteis", "Valor_Total"}

\* C18 as claimed: analyze_by_dimension returns an empty result whenever the
\* table lacks the dimension column or one of the columns it aggregates over:
\* ticket number, the two target columns, business-day duration, monetary
\* value; and it leaves the table as it was.
C18_EmptyIfAnyColumnMissing ==
    /\ [](call.method = "analyze_by_dimension" =>
            ((\E c \in {call.args[1]} \cup RequiredForAnalysis \cup OptionalForAnalysis :
                    ~has_column(df_processed, c))
                => empty(call.result)))
    /\ [][AnalyzeByDimension => df_processed' = df_processed]_vars

\* C18 as the code has it: the result is the empty table if the dimension,
\* the ticket number or one of the two target columns is missing.  Without
\* the business-day duration or the monetary value the breakdown is made all
\* the same, the number of tickets of the group standing in the column of
\* the missing aggregate.  The table is left as it was.
C18_EmptyIfRequiredColumnMissing ==
    /\ [](call.method = "analyze_by_dimension" =>
            IF \E c \in {call.args[1]} \cup RequiredForAnalysis : ~has_column(df_processed, c)
            THEN call.result = EmptyFrame
            ELSE /\ call.result.columns = AnalysisColumns
                 /\ (ValuesOf(call.args[1]) # {}) => ~empty(call.result)
                 /\ \A i \in DOMAIN call.result.rows :
                        LET row == call.result.rows[i]
                        IN  /\ ~has_column(df_processed, "Duracao_Chamado_Dias_Uteis")
                                => row.Tempo_Medio_Resolucao = row.Total_Chamados
                            /\ ~has_column(df_processed, "Valor_Total")
                                => row.Valor_Total_OS = row.Total_Chamados)
    /\ [][AnalyzeByDimension => df_processed' = df_processed]_vars

\* A breakdown of a table without Valor_Total that is not empty.
C18_Witness ==
    /\ call.method = "analyze_by_dimension"
    /\ ~has_column(df_processed, "Valor_Total")
    /\ has_column(df_processed, "Duracao_Chamado_Dias_Uteis")
    /\ ~empty(call.result)
    /\ call.result.rows[1].Valor_Total_OS = call.result.rows[1].Total_Chamados

----------------------------------------------------------------------------
(* C21: lifecycle, closing and financial status *)

\* C21: for every record, Status_Chamado is "Pendente" exactly when the
\* completion is absent and "Concluído" otherwise; Status_Fechamento is
\* "Pendente" exactly when completion and closing are both absent and
\* "Concluído" otherwise; Status_Financeiro is "Pendente" exactly when the
\* closing is absent and "Fechado" otherwise.
C21_StatusFields ==
    Enriched =>
        \A r \in Records :
            LET no_completion == absent(r, "Data_Conclusao")
                no_closing    == absent(r, "Data_de_Fechamento")
            IN  /\ r["Status_Chamado"] =
                        IF no_completion THEN "Pendente" ELSE "Concluído"
                /\ r["Status_Fechamento"] =
                        IF no_completion /\ no_closing THEN "Pendente" ELSE "Concluído"
                /\ r["Status_Financeiro"] =
                        IF no_closing THEN "Pendente" ELSE "Fechado"

\* A record closed without a completion: pending in its lifecycle, while its
\* closing status is completed and its financial status closed.
C21_Witness ==
    /\ Enriched
    /\ \E r \in Records :
        /\ absent(r, "Data_Conclusao")
        /\ present(r, "Data_de_Fechamento")
        /\ r["Status_Chamado"] = "Pendente"
        /\ r["Status_Fechamento"] = "Concluído"
        /\ r["Status_Financeiro"] = "Fechado"

----------------------------------------------------------------------------
(* C22: aggregation waits for derivation *)

\* The columns the steps of prepare_data add to the selected ones.
DerivedColumns ==
    << "Divisão", "Gerência Operacional" >> \o DaxColumns
        \o << "Mes_Ano", "Ano", "Mes", "Nome_Mes", "Status_Atraso", "Dias_Atraso",
              "Status_Prazo_Inicio", "Status_Prazo_Conclusao", "Dias_Atraso_Inicio",
              "Dias_Atraso_Conclusao", "Duracao_Chamado_Dias_Uteis" >>

\* Every name of cols is a column of df and has a cell in every row.
Complete(df, cols) ==
    \A c \in Range(cols) :
        /\ has_column(df, c)
        /\ \A i \in DOMAIN df.rows : c \in DOMAIN df.rows[i]

\* Every cell of a date column is a timestamp or NaT.
Converted(df) ==
    /\ Complete(df, DATE_COLUMNS)
    /\ \A c \in Range(DATE_COLUMNS) : \A i \in DOMAIN df.rows :
            df.rows[i][c] = NaT \/ (Len(df.rows[i][c]) = 2 /\ df.rows[i][c][1] = "ts")

\* The run is one of main: the table went through prepare_data.
RunOfMain == loaded # << >>

\* The statement of prepare_data named label is executed.
Runs(label) == pc = label /\ pc' # label

\* An STDAnalyzer method returns a table or a map.
Aggregates == call' # call

\* C22: in a run of main the KPI maps and the breakdown tables are computed
\* from a table that has every derived column in every record, after
\* prepare_data has returned; and each derivation step starts on a table
\* that holds what it reads: the selection on the normalized sheet, the
\* mappings and the date conversion on the selected columns, the calendar
\* and the three derivations on converted dates.
C22_AggregationAfterDerivation ==
    /\ [][Runs("available_cols") => Complete(df_original, COLUNAS_IMPORTANTES)]_vars
    /\ [][(Runs("_apply_mappings") \/ Runs("_convert_dates")) =>
            Complete(df_processed, COLUNAS_IMPORTANTES)]_vars
    /\ [][(Runs("_create_calendar") \/ Runs("_create_dax_equivalent_columns")) =>
            Converted(df_processed)]_vars
    /\ [][Runs("_identify_late_and_open_calls") =>
            /\ Converted(df_processed)
            /\ Complete(df_processed, DaxColumns \o << "Nome_Mes" >>)]_vars
    /\ [][Runs("_calculate_sla_status") =>
            /\ Converted(df_processed)
            /\ Complete(df_processed, << "Status_Atraso", "Dias_Atraso" >>)]_vars
    /\ [][Runs("_compute_statistics") => Complete(df_processed, DerivedColumns)]_vars
    /\ [][(Aggregates /\ RunOfMain) =>
            /\ pc = "done"
            /\ stats # << >>
            /\ Complete(df_processed, DerivedColumns)]_vars

\* A run of main on a sheet whose completion cell is text: the cell was
\* converted to NaT, the KPI map exists and a breakdown has been computed.
C22_Witness ==
    /\ RunOfMain
    /\ pc = "done"
    /\ stats # << >>
    /\ call.method = "analyze_by_dimension"
    /\ \E i \in DOMAIN df_processed.rows :
        /\ df_original.rows[i]["Data_Conclusao"] = Str("n/d")
        /\ df_processed.rows[i]["Data_Conclusao"] = NaT
        /\ df_processed.rows[i]["Status_Prazo_Conclusao"] \in {"Pendente", "Não Definido"}

----------------------------------------------------------------------------
(* C23: "completed late" and the completion verdict *)

\* C23: a record is classified "Concluído com Atraso" exactly when its
\* completion verdict Status_Prazo_Conclusao is "FP", and for such a record
\* Dias_Atraso equals Dias_Atraso_Conclusao.
C23_CompletedLateIffMissedTarget ==
    Enriched =>
        \A r \in Records :
            /\ (r["Status_Atraso"] = "Concluído com Atraso")
                    <=> (r["Status_Prazo_Conclusao"] = "FP")
            /\ (r["Status_Atraso"] = "Concluído com Atraso")
                    => (r["Dias_Atraso"] = r["Dias_Atraso_Conclusao"])

\* A record completed at least a day after its forecast has both
\* classifications and a delay of whole days that is not zero.
C23_Witness ==
    /\ Enriched
    /\ \E r \in Records :
        /\ r["Status_Atraso"] = "Concluído com Atraso"
        /\ r["Status_Prazo_Conclusao"] = "FP"
        /\ r["Dias_Atraso"] = r["Dias_Atraso_Conclusao"]
        /\ num_ge(r["Dias_Atraso"], 1)

----------------------------------------------------------------------------
(* C24: consistency of the status fields of one record *)

\* C24: Estoque_Atual is "Estoque Atual" exactly when Status_Fechamento is
\* "Pendente"; a record in backlog has Status_Chamado "Pendente" and
\* Status_Financeiro "Pendente"; a record with Fechamento_Pendente "Sim" is
\* not in backlog.
C24_StatusConsistency ==
    Enriched =>
        \A r \in Records :
            LET in_backlog == r["Estoque_Atual"] = "Estoque Atual"
            IN  /\ in_backlog <=> (r["Status_Fechamento"] = "Pendente")
                /\ in_backlog => /\ r["Status_Chamado"] = "Pendente"
                                 /\ r["Status_Financeiro"] = "Pendente"
                /\ (r["Fechamento_Pendente"] = "Sim") => ~in_backlog

\* A record completed long ago and never closed: flagged Fechamento_Pendente,
\* outside the backlog, its closing status completed and its financial
\* status pending.
C24_Witness ==
    /\ Enriched
    /\ \E r \in Records :
        /\ r["Fechamento_Pendente"] = "Sim"
        /\ r["Estoque_Atual"] = "Não"
        /\ r["Status_Fechamento"] = "Concluído"
        /\ r["Status_Financeiro"] = "Pendente"

----------------------------------------------------------------------------
(* C25: range of the percentage KPIs *)

\* A percentage KPI lies in 0..100.
in_0_100(x) ==
    \/ x = << 0 >>
    \/ Len(x) = 3 /\ x[1] = "ratio" /\ x[3] > 0 /\ 0 <= x[2] /\ x[2] <= 100 * x[3]

\* What C25 says of a KPI map.
kpis_in_range(kpis) ==
    /\ in_0_100(kpis["SLA Início"])
    /\ in_0_100(kpis["SLA Término"])
    /\ kpis["Total Inicio NP"] <= kpis["Total Chamados"]
    /\ kpis["Total Conclusão NP"] <= kpis["Total Chamados Termino"]
    /\ kpis["Total Chamados FP"] >= 0

\* C25 as claimed: for an enriched table, in the map of _compute_statistics
\* and in that of calculate_general_stats, SLA Início and SLA Término lie in
\* 0..100, the within-target start count does not exceed the number of
\* records, the within-target completion count does not exceed the number of
\* completed records, and Total Chamados FP is not negative.
C25_PercentagesInRange ==
    Enriched =>
        /\ kpis_in_range(stats)
        /\ call.method = "calculate_general_stats" => kpis_in_range(call.result)

----------------------------------------------------------------------------
(* C26: the two KPI computations *)

\* C26: on the enriched table of a run, the map calculate_general_stats
\* returns has the names of processor.stats and the same value under every
\* name.
C26_KpiMapsAgree ==
    (Enriched /\ call.method = "calculate_general_stats") =>
        /\ DOMAIN call.result = DOMAIN stats
        /\ \A name \in DOMAIN stats : call.result[name] = stats[name]

\* Both maps computed on a table of two records of which one is completed,
\* with a KPI that is a quotient and a mean over no value at all.
C26_Witness ==
    /\ Enriched
    /\ call.method = "calculate_general_stats"
    /\ call.result = stats
    /\ stats["Total Chamados"] = 2
    /\ stats["Total Chamados Termino"] = 1
    /\ Len(stats["SLA Término"]) = 3
    /\ stats["Média Valor OS"] = NaN
    /\ Cardinality(DOMAIN stats) = 27

----------------------------------------------------------------------------
(* C27: the rows of a breakdown *)

\* What C27 says of a row of a breakdown.
breakdown_row_sound(r) ==
    /\ r["Total_Chamados"][1] >= 1
    /\ r["NP_Inicio"][1] <= r["Total_Chamados"][1]
    /\ r["NP_Conclusao"][1] <= r["Total_Chamados"][1]
    /\ in_0_100(r["% SLA Início"])
    /\ in_0_100(r["% SLA Conclusão"])

\* C27 as claimed: in every row of a table analyze_by_dimension or
\* analyze_monthly_evolution returns, Total_Chamados is at least 1, NP_Inicio
\* and NP_Conclusao do not exceed it, and both rates are numbers in 0..100,
\* also when records of the group have no Numero_Chamado.
C27_BreakdownRows ==
    call.method \in {"analyze_by_dimension", "analyze_monthly_evolution"} =>
        \A i \in DOMAIN call.result.rows : breakdown_row_sound(call.result.rows[i])

====
